---------------------------- MODULE Spec2Model ----------------------------
(***************************************************************************)
(* DynaCal date/time normalisation (src/src/utils/dateParser.js).          *)
(*                                                                         *)
(* A text is a sequence of characters; a character is a one-character      *)
(* string, except the en-dash U+2013, written EnDash.  parseTime and       *)
(* parseEventDateTime are modelled on the characters of their argument:    *)
(* the regular expression is matched left to right, the captured groups    *)
(* are converted with parseInt, and Date objects are built by the          *)
(* ECMAScript date arithmetic (out-of-range fields carry over).            *)
(*                                                                         *)
(* A Date is modelled by its local wall-clock fields and its time value in *)
(* minutes; the local time zone is taken to have a fixed offset (no        *)
(* daylight-saving gaps), and years are four-digit years, so the           *)
(* constructor's 0..99 -> 1900..1999 rule never applies.                   *)
(*                                                                         *)
(* The module holds six specifications over the same variables: Spec       *)
(* (the parser), FormatSpec (formatISODate), IcsSpec (generateICS of       *)
(* src/src/utils/icsGenerator.js), PopupSpec (handleExport and the         *)
(* export records of the popup, src/unnamed/part_001), ScanSpec (the       *)
(* popup's scanPageForEvents and handleMessage of src/src/content.js) and  *)
(* UtilSpec (single calls of foldLine, escapeICSText,                      *)
(* isValidLiveEventsPage and generateGoogleCalendarLink).  Each one leaves *)
(* the variables of the other parts at rest.                               *)
(***************************************************************************)
EXTENDS Integers, Sequences, FiniteSets, TLC

VARIABLES
    pc,             \* "call": the call is about to be made; "done": it returned
    op,             \* the function under call: "parseEventDateTime" or "parseTime"
    ev,             \* the fields the event text was written from
    dateTimeStr,    \* parseEventDateTime's first argument (characters)
    referenceYear,  \* parseEventDateTime's second argument
    locals,         \* parseEventDateTime's local variables at its last statement
    eventResult,    \* what parseEventDateTime returned
    tm,             \* the fields the clock-time token was written from
    timeStr,        \* parseTime's argument (characters)
    timeResult,     \* what parseTime returned
    dates,          \* formatISODate: the Dates it is called with, one after the other
    isos,           \* formatISODate: what it returned so far
    events,         \* generateICS: the event of each call the process makes
    now,            \* the system clock the process reads
    calls,          \* generateICS: the calls made so far, with what they returned
    storage,        \* popup: chrome.storage.local, exportedEvents and the requests it has to answer
    exportedEventsCache,  \* popup: the module variable of that name
    tasks,          \* popup: the handleExport invocations and where each stands
    view,           \* popup: the event cards, their disabled buttons and badges, the toast
    effects,        \* popup: the export actions performed (windows opened, files saved)
    browser,        \* scan: the active tab, whether the content script runs in it, what scraping gives
    scanPage,       \* scan: the scanPageForEvents invocation, where it stands and how its promise settled
    messages,       \* scan: the messages on their way to the content script
    handled,        \* scan: the messages handleMessage has handled, with its answers and return value
    args,           \* the arguments of the function under call (op)
    returned        \* what the function under call returned

parserVars == <<ev, dateTimeStr, referenceYear, locals, eventResult, tm, timeStr, timeResult>>

formatVars == <<dates, isos>>

icsVars == <<events, now, calls>>

popupVars == <<storage, exportedEventsCache, tasks, view, effects>>

scanVars == <<browser, scanPage, messages, handled>>

utilVars == <<args, returned>>

vars == <<pc, op, parserVars, formatVars, icsVars, popupVars, scanVars, utilVars>>

--------------------------------------------------------------------------
(* Characters *)

EnDash == "U+2013"

UpperLetters ==
    <<"A","B","C","D","E","F","G","H","I","J","K","L","M",
      "N","O","P","Q","R","S","T","U","V","W","X","Y","Z">>

LowerLetters ==
    <<"a","b","c","d","e","f","g","h","i","j","k","l","m",
      "n","o","p","q","r","s","t","u","v","w","x","y","z">>

DigitChars == <<"0","1","2","3","4","5","6","7","8","9">>

Range(f) == { f[i] : i \in DOMAIN f }

\* \d
Digit == Range(DigitChars)

\* \w  (no u flag: ASCII letters, digits and underscore)
Word == Range(UpperLetters) \cup Range(LowerLetters) \cup Digit \cup {"_"}

\* \s  (the white space the inputs use: space and tab)
Space == {" ", "\t"}

\* String.prototype.toLowerCase, one character
ToLowerChar(c) ==
    IF c \in Range(UpperLetters)
    THEN LowerLetters[CHOOSE i \in 1..26 : UpperLetters[i] = c]
    ELSE c

\* String.prototype.toUpperCase, one character
ToUpperChar(c) ==
    IF c \in Range(LowerLetters)
    THEN UpperLetters[CHOOSE i \in 1..26 : LowerLetters[i] = c]
    ELSE c

toLowerCase(s) == [i \in 1..Len(s) |-> ToLowerChar(s[i])]

toUpperCase(s) == [i \in 1..Len(s) |-> ToUpperChar(s[i])]

\* String.prototype.substring(from, to), 0-based, end exclusive, clamped
substring(s, from, to) ==
    LET hi == IF to > Len(s) THEN Len(s) ELSE to
    IN  IF from >= hi THEN << >> ELSE SubSeq(s, from + 1, hi)

Null == [null |-> TRUE]

\* the character at 1-based position i, "" past the end
At(s, i) == IF i \in 1..Len(s) THEN s[i] ELSE ""

\* F applied to the value of x, with x evaluated once (a const binding)
Bind(x, F(_)) == CHOOSE r \in { F(v) : v \in {x} } : TRUE

\* One item of a pattern: between min and max characters of a class (max 0: no
\* maximum, as for + and *), taken greedily.  In both patterns below, every item of variable length is followed
\* by an item (or the end anchor) whose class is disjoint from its own, so the
\* greedy match is the only one and no backtracking can find another.
Item(class, min, max) == [class |-> class, min |-> min, max |-> max]

\* the position after item it matched at position i of s, or 0 when fewer than
\* it.min characters of its class stand there
ItemEnd(it, s, i) ==
    LET run[j \in 1..(Len(s) + 1)] ==
            IF (it.max = 0 \/ j - i < it.max) /\ At(s, j) \in it.class
            THEN run[j + 1] ELSE j
    IN  Bind(run[i], LAMBDA j : IF j - i < it.min THEN 0 ELSE j)

\* the positions after each item of pattern pat matched from the start of s;
\* the list stops with 0 at the first item that does not match
ItemEnds(pat, s) ==
    LET ends[k \in 1..(Len(pat) + 1), i \in 1..(Len(s) + 1)] ==
            IF k > Len(pat) THEN << >>
            ELSE Bind(ItemEnd(pat[k], s, i),
                      LAMBDA j : IF j = 0 THEN <<0>> ELSE <<j>> \o ends[k + 1, j])
    IN  ends[1, 1]

\* s.match(/^pat$/): the captured groups, or Null.  groups[g] = <<a, b>> says
\* that group g spans items a..b of the pattern.
Match(pat, groups, s) ==
    Bind(ItemEnds(pat, s),
         LAMBDA e :
            IF Len(e) = Len(pat) /\ e[Len(pat)] = Len(s) + 1
            THEN [g \in 1..Len(groups) |->
                     SubSeq(s, IF groups[g][1] = 1 THEN 1 ELSE e[groups[g][1] - 1],
                            e[groups[g][2]] - 1)]
            ELSE Null)

\* parseInt(str, 10) of a string of digits
RECURSIVE parseInt(_)
parseInt(ds) ==
    IF ds = << >> THEN 0
    ELSE 10 * parseInt(SubSeq(ds, 1, Len(ds) - 1))
         + ((CHOOSE i \in 1..10 : DigitChars[i] = ds[Len(ds)]) - 1)

--------------------------------------------------------------------------
(* Date: new Date(year, month, day, hours, minutes) and its getters *)

\* days from 1970-01-01 to the first day of month (0-indexed) of year
DayFromYearMonth(year, month) ==
    LET ym  == year + (month \div 12)
        m1  == (month % 12) + 1
        y   == IF m1 <= 2 THEN ym - 1 ELSE ym
        era == y \div 400
        yoe == y - era * 400
        mp  == (m1 + 9) % 12
        doy == (153 * mp + 2) \div 5
        doe == yoe * 365 + (yoe \div 4) - (yoe \div 100) + doy
    IN  era * 146097 + doe - 719468

\* the calendar fields of a day number
CivilFromDays(z) ==
    LET zz  == z + 719468
        era == zz \div 146097
        doe == zz - era * 146097
        yoe == (doe - (doe \div 1460) + (doe \div 36524) - (doe \div 146096)) \div 365
        doy == doe - (365 * yoe + (yoe \div 4) - (yoe \div 100))
        mp  == (5 * doy + 2) \div 153
        d   == doy - ((153 * mp + 2) \div 5) + 1
        m1  == IF mp < 10 THEN mp + 3 ELSE mp - 9
        y   == yoe + era * 400 + (IF m1 <= 2 THEN 1 ELSE 0)
    IN  [year |-> y, month |-> m1 - 1, date |-> d]

\* new Date(year, month, day, hours, minutes): the time value is linear in
\* every field, and the getters read the normalised local fields
NewDate(year, month, day, hours, minutes) ==
    LET t   == (DayFromYearMonth(year, month) + day - 1) * 1440 + hours * 60 + minutes
        civ == CivilFromDays(t \div 1440)
    IN  [time     |-> t,
         fullYear |-> civ.year,
         month    |-> civ.month,
         date     |-> civ.date,
         hours    |-> (t % 1440) \div 60,
         minutes  |-> t % 60]

--------------------------------------------------------------------------
(* parseTime *)

\* TimeHours24 without the exception for 12 under PM
TimeHours24NoonAdds(hours, period) ==
    IF period = <<"P", "M">> THEN hours + 12
    ELSE IF period = <<"A", "M">> /\ hours = 12 THEN 0
    ELSE hours

\* the hour conversion of parseTime (lines 17-21)
TimeHours24(hours, period) ==
    IF period = <<"P", "M">> /\ hours # 12 THEN hours + 12
    ELSE IF period = <<"A", "M">> /\ hours = 12 THEN 0
    ELSE hours

\* /^(\d{1,2}):(\d{2})\s*(AM|PM)$/i
TimePattern ==
    << Item(Digit, 1, 2),                  \* (\d{1,2})
       Item({":"}, 1, 1),                  \* :
       Item(Digit, 2, 2),                  \* (\d{2})
       Item(Space, 0, 0)      ,            \* \s*
       Item({"A", "a", "P", "p"}, 1, 1),   \* (AM|PM), i flag
       Item({"M", "m"}, 1, 1) >>

TimeGroups == << <<1, 1>>, <<3, 3>>, <<5, 6>> >>

parseTime(s) ==
    Bind(Match(TimePattern, TimeGroups, s),
         LAMBDA match :
            IF match = Null THEN Null
            ELSE LET hours   == parseInt(match[1])
                     minutes == parseInt(match[2])
                     period  == toUpperCase(match[3])
                 IN  IF hours < 1 \/ hours > 12 THEN Null
                     ELSE [hours |-> TimeHours24(hours, period), minutes |-> minutes])

--------------------------------------------------------------------------
(* parseEventDateTime *)

\* the keys of MONTHS, in the order of their values 0..11
MonthKeys ==
    << <<"j","a","n">>, <<"f","e","b">>, <<"m","a","r">>, <<"a","p","r">>,
       <<"m","a","y">>, <<"j","u","n">>, <<"j","u","l">>, <<"a","u","g">>,
       <<"s","e","p">>, <<"o","c","t">>, <<"n","o","v">>, <<"d","e","c">> >>

\* MONTHS[key] !== undefined
HasMonth(key) == \E i \in 1..12 : MonthKeys[i] = key

\* MONTHS[key], for a key the table has
MONTHS(key) == (CHOOSE i \in 1..12 : MonthKeys[i] = key) - 1

\* MonthKey without the toLowerCase call
MonthKeyCaseSensitive(monthStr) == substring(monthStr, 0, 3)

\* monthStr.toLowerCase().substring(0, 3)
MonthKey(monthStr) == substring(toLowerCase(monthStr), 0, 3)

\* the separator class without the ASCII hyphen
SepCharsEnDashOnly == {EnDash}

\* the character class [–-] between the two clock times
SepChars == {EnDash, "-"}

\* period.toUpperCase() === 'PM'
IsPM(period) == toUpperCase(period) = <<"P", "M">>

\* EndHour24 without the branch that turns 12 AM into 0
EndHour24NoMidnight(endHour, isPM) ==
    IF isPM /\ endHour # 12 THEN endHour + 12 ELSE endHour

\* lines 103-107: the end hour in 24-hour form
EndHour24(endHour, isPM) ==
    IF isPM /\ endHour # 12 THEN endHour + 12
    ELSE IF ~isPM /\ endHour = 12 THEN 0
    ELSE endHour

\* StartHour24 without the exception for 12 under PM
StartHour24AlwaysAdds(startHour, isPM) ==
    IF isPM THEN startHour + 12
    ELSE IF startHour = 12 THEN 0
    ELSE startHour

\* StartHour24 with the start hour left in 12-hour form
StartHour24Unconverted(startHour, isPM) == startHour

\* lines 113-121: the start hour in 24-hour form, under the end time's marker
StartHour24(startHour, isPM) ==
    IF isPM /\ startHour # 12 THEN startHour + 12
    ELSE IF ~isPM /\ startHour = 12 THEN 0
    ELSE startHour

\* lines 125-130: the year of the event
ResolveYear(refYear, month) == IF month < 11 THEN refYear + 1 ELSE refYear

\* ResultTimezone without the toUpperCase call
ResultTimezoneAsWritten(timezone) == timezone

\* line 138: the timezone of the result
ResultTimezone(timezone) == toUpperCase(timezone)

\* /^(?:\w+),\s+(\w+)\s+(\d{1,2}),\s+(\d{1,2}):(\d{2})\s*[–-]\s*(\d{1,2}):(\d{2})\s*(AM|PM)\s+(\w+)$/i
EventPattern ==
    << Item(Word, 1, 0)      ,             \*  1  ^(?:\w+)
       Item({","}, 1, 1),                  \*  2  ,
       Item(Space, 1, 0)      ,            \*  3  \s+
       Item(Word, 1, 0)      ,             \*  4  (\w+)
       Item(Space, 1, 0)      ,            \*  5  \s+
       Item(Digit, 1, 2),                  \*  6  (\d{1,2})
       Item({","}, 1, 1),                  \*  7  ,
       Item(Space, 1, 0)      ,            \*  8  \s+
       Item(Digit, 1, 2),                  \*  9  (\d{1,2})
       Item({":"}, 1, 1),                  \* 10  :
       Item(Digit, 2, 2),                  \* 11  (\d{2})
       Item(Space, 0, 0)      ,            \* 12  \s*
       Item(SepChars, 1, 1),               \* 13  [–-]
       Item(Space, 0, 0)      ,            \* 14  \s*
       Item(Digit, 1, 2),                  \* 15  (\d{1,2})
       Item({":"}, 1, 1),                  \* 16  :
       Item(Digit, 2, 2),                  \* 17  (\d{2})
       Item(Space, 0, 0)      ,            \* 18  \s*
       Item({"A", "a", "P", "p"}, 1, 1),   \* 19  (AM|PM), i flag
       Item({"M", "m"}, 1, 1),             \* 20
       Item(Space, 1, 0)      ,            \* 21  \s+
       Item(Word, 1, 0)       >>           \* 22  (\w+)$

\* monthStr, dayStr, startHourStr, startMinStr, endHourStr, endMinStr, period,
\* timezone (line 85)
EventGroups ==
    << <<4, 4>>, <<6, 6>>, <<9, 9>>, <<11, 11>>, <<15, 15>>, <<17, 17>>,
       <<19, 20>>, <<22, 22>> >>

\* dateTimeStr.match(pattern): the eight captured groups, or Null
MatchEventPattern(s) == Match(EventPattern, EventGroups, s)

\* lines 76-130: the function's local variables when it builds the two Dates,
\* or Null where it has returned null before
EventLocals(s, refYear) ==
    IF s = << >> THEN Null
    ELSE Bind(MatchEventPattern(s),
         LAMBDA match :
            IF match = Null THEN Null
            ELSE LET monthKey == MonthKey(match[1])
                     month    == MONTHS(monthKey)
                     isPM     == IsPM(match[7])
                 IN  IF ~HasMonth(monthKey) THEN Null
                     ELSE [month     |-> month,
                           day       |-> parseInt(match[2]),
                           startHour |-> StartHour24(parseInt(match[3]), isPM),
                           startMin  |-> parseInt(match[4]),
                           endHour   |-> EndHour24(parseInt(match[5]), isPM),
                           endMin    |-> parseInt(match[6]),
                           year      |-> ResolveYear(refYear, month),
                           timezone  |-> match[8]])

\* lines 132-139: the returned object
parseEventDateTime(s, refYear) ==
    Bind(EventLocals(s, refYear),
         LAMBDA l :
            IF l = Null THEN Null
            ELSE [startDate |-> NewDate(l.year, l.month, l.day, l.startHour, l.startMin),
                  endDate   |-> NewDate(l.year, l.month, l.day, l.endHour, l.endMin),
                  timezone  |-> ResultTimezone(l.timezone)])

--------------------------------------------------------------------------
(* The texts the functions are called with *)

\* the largest day field written into a text
MaxDay == 33

\* the largest hour field written into a text
MaxHour == 13

\* the last reference year (the first is the year before)
MaxRefYear == 2024

RefYears == (MaxRefYear - 1)..MaxRefYear

MinuteFields == {0, 30, 59, 75}

\* Number.prototype.toString of a field value
Digits(n) ==
    IF n < 10 THEN <<DigitChars[n + 1]>>
    ELSE IF n < 100 THEN <<DigitChars[(n \div 10) + 1], DigitChars[(n % 10) + 1]>>
    ELSE <<DigitChars[(n \div 100) + 1], DigitChars[((n \div 10) % 10) + 1],
           DigitChars[(n % 10) + 1]>>

\* a two-digit field: n.toString().padStart(2, '0')
Pad2(n) == IF n < 10 THEN <<"0">> \o Digits(n) ELSE Digits(n)

Capitalise(s) == <<ToUpperChar(s[1])>> \o Tail(s)

\* jan..dec in lower case, capitalised, in upper case and in mixed case ("jAN")
MonthAbbrTokens ==
    UNION { {MonthKeys[i], Capitalise(MonthKeys[i]), toUpperCase(MonthKeys[i]),
             <<MonthKeys[i][1]>> \o toUpperCase(Tail(MonthKeys[i]))} : i \in 1..12 }

\* longer month names, and tokens that are no month name
OtherMonthTokens ==
    { <<"D","e","c","e","m","b","e","r">>, <<"S","e","p","t">>,
      <<"X","y","z">>, <<"D","e">>, <<"D","e","c","o","y">>,
      <<"J","a","n","i","t","o","r">> }

PeriodTokens == { <<"A","M">>, <<"P","M">>, <<"p","m">>, <<"a","M">> }

TimezoneTokens == { <<"E","S","T">>, <<"e","s","t">>, <<"P","s","t">>, <<"U","_","1">> }

\* "Thursday, Dec 4, 10:00 – 11:00 AM EST" (line 68), from its fields
BaseEvent ==
    [wd  |-> <<"M","o","n">>, mon |-> <<"D","e","c">>, day |-> 4,
     sh  |-> 10, sm |-> 0, gap |-> <<" ">>, sep |-> EnDash,
     eh  |-> 11, em |-> 0, per |-> <<"A","M">>, tz |-> <<"E","S","T">>,
     ref |-> MaxRefYear]

\* every month token with every day field, in both reference years
DateEvents ==
    { [BaseEvent EXCEPT !.mon = m, !.day = d, !.ref = y] :
        m \in MonthAbbrTokens \cup OtherMonthTokens, d \in 0..MaxDay, y \in RefYears }

\* every pair of clock times under each marker, early and late in the month
TimeEvents ==
    { [BaseEvent EXCEPT !.mon = m, !.day = d, !.sh = t[1], !.sm = t[2],
                        !.eh = t[3], !.em = t[4], !.per = p] :
        m \in { <<"D","e","c">>, <<"J","a","n">> }, d \in {4, 31},
        t \in (0..MaxHour) \X MinuteFields \X (0..MaxHour) \X MinuteFields,
        p \in { <<"A","M">>, <<"P","M">>, <<"p","m">> } }

\* separators, white space, markers, timezones and shapes outside the grammar
TextEvents ==
    { [BaseEvent EXCEPT !.wd = w, !.day = d, !.sh = 12, !.eh = 1, !.em = 30,
                        !.gap = g, !.sep = c, !.per = p, !.tz = z] :
        w \in { <<"M","o","n">>, << >> }, d \in {5, 100},
        g \in { << >>, <<" ">>, <<" ", "\t">> }, c \in {EnDash, "-", "~"},
        p \in PeriodTokens \cup { <<"X","M">> }, z \in TimezoneTokens }

EventInputs == DateEvents \cup TimeEvents \cup TextEvents

\* the text of an event: weekday, month, day, the two clock times, marker, zone
Render(e) ==
    e.wd \o <<",", " ">> \o e.mon \o <<" ">> \o Digits(e.day) \o <<",", " ">>
         \o Digits(e.sh) \o <<":">> \o Pad2(e.sm)
         \o e.gap \o <<e.sep>> \o e.gap
         \o Digits(e.eh) \o <<":">> \o Pad2(e.em)
         \o e.gap \o e.per \o <<" ">> \o e.tz

BaseTime == [h |-> 1, m |-> 0, gap |-> << >>, per |-> <<"P","M">>, shape |-> "H:MM"]

TimeShapes == {"H:MM", "H:M", "HMM", "H:MMx", "word", "empty"}

TimeInputs ==
    [h : (0..MaxHour) \cup {25, 100}, m : MinuteFields, gap : { << >>, <<" ">> },
     per : PeriodTokens \cup { <<"X","M">> }, shape : TimeShapes]

\* the text of a clock-time token, "1:00PM" (line 2), or a malformed one
RenderTime(t) ==
    CASE t.shape = "H:MM"  -> Digits(t.h) \o <<":">> \o Pad2(t.m) \o t.gap \o t.per
      [] t.shape = "H:M"   -> Digits(t.h) \o <<":">> \o <<DigitChars[(t.m % 10) + 1]>> \o t.gap \o t.per
      [] t.shape = "HMM"   -> Digits(t.h) \o Pad2(t.m) \o t.gap \o t.per
      [] t.shape = "H:MMx" -> Digits(t.h) \o <<":">> \o Pad2(t.m) \o t.gap \o t.per \o <<"x">>
      [] t.shape = "word"  -> <<"i","n","v","a","l","i","d">>
      [] t.shape = "empty" -> << >>

--------------------------------------------------------------------------
(* The calls *)

\* the variables of formatISODate, when it is not the function under call
FormatAtRest == dates = << >> /\ isos = << >>

\* the variables of generateICS, when it is not the function under call
IcsAtRest == events = << >> /\ now = Null /\ calls = << >>

\* the variables of the popup, when it is not running
PopupAtRest ==
    /\ storage = Null /\ exportedEventsCache = << >>
    /\ tasks = << >> /\ view = Null /\ effects = << >>

\* the variables of the scan of the page while other parts are checked
ScanAtRest ==
    browser = Null /\ scanPage = Null /\ messages = << >> /\ handled = << >>

\* the variables of the single function calls while other parts are checked
UtilAtRest == args = Null /\ returned = Null

Init ==
    /\ pc = "call"
    /\ FormatAtRest /\ IcsAtRest /\ PopupAtRest /\ ScanAtRest /\ UtilAtRest
    /\ locals = Null
    /\ eventResult = Null
    /\ timeResult = Null
    /\ \/ /\ op = "parseEventDateTime"
          /\ ev \in EventInputs
          /\ tm = BaseTime
       \/ /\ op = "parseTime"
          /\ ev = BaseEvent
          /\ tm \in TimeInputs
    /\ dateTimeStr = Render(ev)
    /\ referenceYear = ev.ref
    /\ timeStr = RenderTime(tm)

CallParseEventDateTime ==
    /\ pc = "call"
    /\ op = "parseEventDateTime"
    /\ locals' = EventLocals(dateTimeStr, referenceYear)
    /\ eventResult' = parseEventDateTime(dateTimeStr, referenceYear)
    /\ pc' = "done"
    /\ UNCHANGED <<op, ev, dateTimeStr, referenceYear, tm, timeStr, timeResult>>
    /\ UNCHANGED <<formatVars, icsVars, popupVars, scanVars, utilVars>>

CallParseTime ==
    /\ pc = "call"
    /\ op = "parseTime"
    /\ timeResult' = parseTime(timeStr)
    /\ pc' = "done"
    /\ UNCHANGED <<op, ev, dateTimeStr, referenceYear, locals, eventResult, tm, timeStr>>
    /\ UNCHANGED <<formatVars, icsVars, popupVars, scanVars, utilVars>>

Next == CallParseEventDateTime \/ CallParseTime

Spec == Init /\ [][Next]_vars

--------------------------------------------------------------------------
(* formatISODate *)

\* the digits Number.prototype.toString writes, up to radix 36
RadixDigits == DigitChars \o LowerLetters

\* Number.prototype.toString(radix) of an integer
toString(n, radix) ==
    LET str[k \in Nat] ==
            IF k < radix THEN <<RadixDigits[k + 1]>>
            ELSE str[k \div radix] \o <<RadixDigits[(k % radix) + 1]>>
    IN  IF n < 0 THEN <<"-">> \o str[0 - n] ELSE str[n]

\* String.prototype.padStart(targetLength, padString), padString one character
padStart(str, targetLength, padString) ==
    IF Len(str) >= targetLength THEN str
    ELSE [i \in 1..(targetLength - Len(str)) |-> padString] \o str

\* new Date(year, month, day, hours, minutes, seconds): a year argument 0..99
\* stands for 1900 + year, and seconds carry over into the minutes
NewDateSeconds(year, month, day, hours, minutes, seconds) ==
    [seconds |-> seconds % 60]
        @@ NewDate(IF year \in 0..99 THEN 1900 + year ELSE year,
                   month, day, hours, minutes + (seconds \div 60))

\* Date.prototype.getSeconds: 0 for a Date built without a seconds argument
getSeconds(date) == IF "seconds" \in DOMAIN date THEN date.seconds ELSE 0

\* line 46: const pad = (n) => n.toString().padStart(2, '0')
pad(n) == padStart(toString(n, 10), 2, "0")

\* lines 45-56
formatISODate(date) ==
    toString(date.fullYear, 10) \o pad(date.month + 1) \o pad(date.date)
        \o <<"T">>
        \o pad(date.hours) \o pad(date.minutes) \o pad(getSeconds(date))

\* the years of the Dates formatted: three- and four-digit years (a time value
\* in minutes is a 32-bit integer up to the year 6053)
FormatYears == {100, 999, 1000, 2025, 5999}

\* month (0-indexed) and day
FormatDays == { <<0, 1>>, <<0, 5>>, <<9, 10>>, <<11, 31>> }

\* hours, minutes, seconds
FormatClocks == { <<0, 0, 0>>, <<9, 5, 0>>, <<13, 0, 0>>, <<23, 59, 59>> }

FormatDates ==
    { NewDateSeconds(y, d[1], d[2], c[1], c[2], c[3]) :
        y \in FormatYears, d \in FormatDays, c \in FormatClocks }

\* the parser's variables, when none of its functions is under call
ParserAtRest ==
    /\ ev = BaseEvent /\ tm = BaseTime
    /\ dateTimeStr = Render(BaseEvent) /\ referenceYear = BaseEvent.ref
    /\ timeStr = RenderTime(BaseTime)
    /\ locals = Null /\ eventResult = Null /\ timeResult = Null

\* two Dates, to be formatted one after the other
FormatInit ==
    /\ pc = "call" /\ op = "formatISODate"
    /\ ParserAtRest /\ IcsAtRest /\ PopupAtRest /\ ScanAtRest /\ UtilAtRest
    /\ dates \in FormatDates \X FormatDates
    /\ isos = << >>

CallFormatISODate ==
    /\ pc = "call" /\ op = "formatISODate"
    /\ isos' = Append(isos, formatISODate(dates[Len(isos) + 1]))
    /\ pc' = IF Len(isos') = Len(dates) THEN "done" ELSE "call"
    /\ UNCHANGED <<op, dates, parserVars, icsVars, popupVars, scanVars, utilVars>>

FormatNext == CallFormatISODate

FormatSpec == FormatInit /\ [][FormatNext]_vars

--------------------------------------------------------------------------
(* Characters of calendar texts *)

LF == "\n"

CR == "\r"

Backslash == "\\"

\* the UTF-16 code units of the characters that are neither letters nor digits
OtherCharCodes ==
    { <<"\t", 9>>, <<LF, 10>>, <<CR, 13>>, <<" ", 32>>, <<"&", 38>>, <<",", 44>>,
      <<"-", 45>>, <<".", 46>>, <<"/", 47>>, <<":", 58>>, <<";", 59>>,
      <<"@", 64>>, <<Backslash, 92>>, <<"_", 95>>, <<EnDash, 8211>>,
      <<"!", 33>>, <<"#", 35>>, <<"%", 37>>, <<"*", 42>>, <<"+", 43>>,
      <<"=", 61>>, <<"?", 63>> }

\* String.prototype.charCodeAt of a one-character string
charCodeAt(c) ==
    IF c \in Digit THEN 47 + (CHOOSE i \in 1..10 : DigitChars[i] = c)
    ELSE IF c \in Range(UpperLetters) THEN 64 + (CHOOSE i \in 1..26 : UpperLetters[i] = c)
    ELSE IF c \in Range(LowerLetters) THEN 96 + (CHOOSE i \in 1..26 : LowerLetters[i] = c)
    ELSE (CHOOSE p \in OtherCharCodes : p[1] = c)[2]

--------------------------------------------------------------------------
(* icsGenerator.js *)

\* String.prototype.replace(/c/g, by): every occurrence of the character c
\* in text replaced by the text by (out[lo, hi] is the result for the
\* characters lo..hi)
replaceAll(text, c, by) ==
    LET out[lo \in 1..(Len(text) + 1), hi \in 0..Len(text)] ==
            IF lo > hi THEN << >>
            ELSE IF lo = hi THEN (IF text[lo] = c THEN by ELSE <<text[lo]>>)
            ELSE out[lo, (lo + hi) \div 2] \o out[((lo + hi) \div 2) + 1, hi]
    IN  out[1, Len(text)]

\* escapeICSText with the backslashes escaped after the other characters
escapeICSTextBackslashLast(text) ==
    Bind(replaceAll(text, ";", <<Backslash, ";">>), LAMBDA t1 :
    Bind(replaceAll(t1, ",", <<Backslash, ",">>), LAMBDA t2 :
    Bind(replaceAll(t2, LF, <<Backslash, "n">>), LAMBDA t3 :
         replaceAll(t3, Backslash, <<Backslash, Backslash>>))))

\* lines 8-14: four replacements, one after the other, backslash first
escapeICSText(text) ==
    Bind(replaceAll(text, Backslash, <<Backslash, Backslash>>), LAMBDA t1 :
    Bind(replaceAll(t1, ";", <<Backslash, ";">>), LAMBDA t2 :
    Bind(replaceAll(t2, ",", <<Backslash, ",">>), LAMBDA t3 :
         replaceAll(t3, LF, <<Backslash, "n">>))))

\* Array.prototype.join(sep)
join(list, sep) ==
    LET out[k \in 0..Len(list)] ==
            IF k = 0 THEN << >>
            ELSE IF k = 1 THEN list[1]
            ELSE out[k - 1] \o sep \o list[k]
    IN  out[Len(list)]

\* lines 21-40: the first 75 characters, then pieces of a space and up to 74
\* characters, joined with CR LF.  rest[from] is what the while loop pushes
\* when remaining = line.substring(from).
foldLine(line) ==
    IF Len(line) <= 75 THEN line
    ELSE LET rest[from \in 75..Len(line)] ==
                 IF Len(line) - from > 0
                 THEN << <<" ">> \o substring(line, from, from + 74) >>
                          \o rest[IF from + 74 > Len(line) THEN Len(line) ELSE from + 74]
                 ELSE << >>
         IN  Bind(<<substring(line, 0, 75)>> \o rest[75],
                  LAMBDA result : join(result, <<CR, LF>>))

\* A number beyond 32 bits, as hi * 65536 + lo with lo in 0..65535 (the
\* accumulator of the title hash is a double and leaves the 32-bit range)
Wide(hi, lo) == [hi |-> hi + (lo \div 65536), lo |-> lo % 65536]

\* acc << 5: the low 32 bits of 32 * acc, read as a signed 32-bit number
ShiftLeft5(acc) ==
    LET low27 == (acc.hi % 2048) * 65536 + acc.lo
    IN  IF low27 >= 67108864 THEN (low27 - 134217728) * 32 ELSE low27 * 32

\* line 51: ((acc << 5) - acc) + char.charCodeAt(0)
HashStep(acc, code) ==
    Bind(ShiftLeft5(acc), LAMBDA s :
         Wide((s \div 65536) - acc.hi, (s % 65536) - acc.lo + code))

\* Number.prototype.toString(36) of a number beyond 32 bits
WideToString36(w) ==
    LET str[m \in [hi : Nat, lo : 0..65535]] ==
            IF m.hi = 0 THEN toString(m.lo, 36)
            ELSE str[[hi |-> m.hi \div 36, lo |-> ((m.hi % 36) * 65536 + m.lo) \div 36]]
                    \o <<RadixDigits[(((m.hi % 36) * 65536 + m.lo) % 36) + 1]>>
    IN  IF w.hi < 0 THEN <<"-">> \o str[Wide(0 - w.hi, 0 - w.lo)] ELSE str[w]

\* lines 50-52: the title's characters reduced from 0, in base 36.  The
\* reduction runs over blocks of eight characters (block[b] is the accumulator
\* after b blocks), which keeps its evaluation shallow.
titleHash(title) ==
    LET run(start, from, to) ==
            LET acc[k \in (from - 1)..to] ==
                    IF k = from - 1 THEN start
                    ELSE Bind(acc[k - 1], LAMBDA a : HashStep(a, charCodeAt(title[k])))
            IN  acc[to]
        block[b \in 0..((Len(title) + 7) \div 8)] ==
            IF b = 0 THEN Wide(0, 0)
            ELSE Bind(block[b - 1], LAMBDA start :
                      run(start, 8 * (b - 1) + 1,
                          IF 8 * b > Len(title) THEN Len(title) ELSE 8 * b))
    IN  Bind(block[(Len(title) + 7) \div 8], LAMBDA h : WideToString36(h))

\* Date.now() as the template literal writes it: the clock is kept as whole
\* seconds and milliseconds, its count of milliseconds being beyond 32 bits
TimestampString(clock) ==
    toString(clock.seconds, 10) \o padStart(toString(clock.millis, 10), 3, "0")

\* new Date(): the local fields of the clock's reading (zone offset 0)
DateOfClock(clock) ==
    Bind(CivilFromDays(clock.seconds \div 86400), LAMBDA civ :
         [time     |-> clock.seconds \div 60,
          fullYear |-> civ.year,
          month    |-> civ.month,
          date     |-> civ.date,
          hours    |-> (clock.seconds % 86400) \div 3600,
          minutes  |-> (clock.seconds % 3600) \div 60,
          seconds  |-> clock.seconds % 60])

\* lines 47-54; random is Math.random().toString(36)
generateUID(event, clock, random) ==
    TimestampString(clock) \o <<"-">> \o substring(random, 2, 11) \o <<"-">>
        \o titleHash(event.title) \o <<"@","d","y","n","a","m","o","u","s",".","a","i">>

\* the value of a property the event does not have; no text is equal to it,
\* the characters of a text being one-character strings
Undefined == <<"undefined">>

\* if (value): a property that is there and is not the empty string
Truthy(value) == value # Undefined /\ value # << >>

\* RequiredLines with DTSTART written from the clock
RequiredLinesStartFromClock(event, clock, random) ==
    << <<"U","I","D",":">> \o generateUID(event, clock, random),
       <<"D","T","S","T","A","M","P",":">> \o formatISODate(DateOfClock(clock)) \o <<"Z">>,
       <<"D","T","S","T","A","R","T",":">> \o formatISODate(DateOfClock(clock)),
       <<"D","T","E","N","D",":">> \o formatISODate(event.endDate),
       <<"S","U","M","M","A","R","Y",":">> \o escapeICSText(event.title) >>

\* lines 81-86
RequiredLines(event, clock, random) ==
    << <<"U","I","D",":">> \o generateUID(event, clock, random),
       <<"D","T","S","T","A","M","P",":">> \o formatISODate(DateOfClock(clock)) \o <<"Z">>,
       <<"D","T","S","T","A","R","T",":">> \o formatISODate(event.startDate),
       <<"D","T","E","N","D",":">> \o formatISODate(event.endDate),
       <<"S","U","M","M","A","R","Y",":">> \o escapeICSText(event.title) >>

\* lines 88-99
OptionalLines(event) ==
    (IF Truthy(event.location)
     THEN << <<"L","O","C","A","T","I","O","N",":">> \o escapeICSText(event.location) >> ELSE << >>)
    \o (IF Truthy(event.url) THEN << <<"U","R","L",":">> \o event.url >> ELSE << >>)
    \o (IF Truthy(event.description)
        THEN << <<"D","E","S","C","R","I","P","T","I","O","N",":">> \o escapeICSText(event.description) >> ELSE << >>)

\* lines 69-102: the array lines
Lines(event, clock, random) ==
    << <<"B","E","G","I","N",":","V","C","A","L","E","N","D","A","R">>,
       <<"V","E","R","S","I","O","N",":","2",".","0">>,
       <<"P","R","O","D","I","D",":","-","/","/","C","i","r","c","l","e"," ","C","a","l","e","n","d","a","r"," ","E","x","p","o","r","t","e","r","/","/","D","y","n","a","m","o","u","s"," ","A","I","/","/","E","N">>,
       <<"C","A","L","S","C","A","L","E",":","G","R","E","G","O","R","I","A","N">>,
       <<"M","E","T","H","O","D",":","P","U","B","L","I","S","H">>,
       <<"B","E","G","I","N",":","V","E","V","E","N","T">> >>
    \o RequiredLines(event, clock, random)
    \o OptionalLines(event)
    \o << <<"E","N","D",":","V","E","V","E","N","T">>,
          <<"E","N","D",":","V","C","A","L","E","N","D","A","R">> >>

\* lines 68-106: lines.map(foldLine).join('\r\n')
generateICS(event, clock, random) ==
    Bind(Lines(event, clock, random), LAMBDA lines :
    Bind([i \in 1..Len(lines) |-> foldLine(lines[i])], LAMBDA folded :
         join(folded, <<CR, LF>>)))

\* a text n times over
Repeat(text, n) == [i \in 1..(n * Len(text)) |-> text[((i - 1) % Len(text)) + 1]]

\* titles: of the tests (lines 157 and 79), one with a backslash before an n
\* and a line break, and one longer than a line
Titles ==
    { <<"E","v","e","n","t"," ","1">>,
      <<"O","f","f","i","c","e"," ","H","o","u","r","s","/"," ","Q","&","A",":"," ","T","e","s","t",","," ","E","v","e","n","t",";"," ","M","o","r","e">>,
      <<"a",Backslash,"n",";","b",LF,"c">>,
      Repeat(<<"A","b",","," ">>, 24) }

Locations ==
    { Undefined, << >>, <<"V","i","r","t","u","a","l">>, Repeat(<<"x">>, 66), Repeat(<<"x">>, 67) }

\* the URL of the tests (line 9), and href attributes with a line break in
\* them (content.js line 105 reads the attribute as it is written)
Urls ==
    { Undefined, << >>,
      <<"h","t","t","p","s",":","/","/","c","o","m","m","u","n","i","t","y",".","d","y","n","a","m","o","u","s",".","a","i","/","c","/","l","i","v","e","-","e","v","e","n","t","s","/","c","o","m","m","u","n","i","t","y","-","h","a","n","g","o","u","t","-","1","2","3">>,
      <<"/","c","/","l","i","v","e","-","e","v","e","n","t","s","/","a",LF,"b">>,
      <<"/","c","/","l","i","v","e","-","e","v","e","n","t","s","/","a",CR,LF,"L","O","C","A","T","I","O","N",":","O","n","l","i","n","e">> }

\* descriptions of the tests (lines 98 and 145), and one that fills two lines
Descriptions ==
    { Undefined, << >>,
      <<"T","o","p","i","c","s",":"," ","A","I",","," ","M","L",";"," ","M","o","r","e"," ","i","n","f","o",LF,"N","e","w"," ","l","i","n","e"," ","h","e","r","e">>,
      <<"T","h","i","s"," ","i","s"," ","a"," ","v","e","r","y"," ","l","o","n","g"," ","d","e","s","c","r","i","p","t","i","o","n"," ","t","h","a","t"," ","s","h","o","u","l","d"," ","b","e"," ","f","o","l","d","e","d"," ","a","c","c","o","r","d","i","n","g"," ","t","o"," ","R","F","C"," ","5","5","4","5"," ","r","e","q","u","i","r","e","m","e","n","t","s"," ","f","o","r"," ","l","i","n","e"," ","l","e","n","g","t","h"," ","l","i","m","i","t","s"," ","i","n"," ","I","C","S"," ","f","i","l","e","s",".">>,
      Repeat(<<"y">>, 138) }

\* the events generateICS is called with (tests, lines 4-10)
IcsEvents ==
    { [title |-> t, startDate |-> NewDateSeconds(2025, 11, 15, 13, 0, 0),
       endDate |-> NewDateSeconds(2025, 11, 15, 14, 0, 0),
       location |-> l, url |-> u, description |-> d] :
        t \in Titles, l \in Locations, u \in Urls, d \in Descriptions }

\* Math.random().toString(36) of the values Math.random() returns: two
\* fractions and 0
MathRandomStrings ==
    { <<"0",".","4","f","z","y","o","8","2","m","v","y","r">>, <<"0",".","i">>, <<"0">> }

\* the clock when the process starts: 2025-12-15 12:59:59.999
ClockStart ==
    [seconds |-> (DayFromYearMonth(2025, 11) + 14) * 86400 + 46799, millis |-> 999]

\* the milliseconds the clock advances at most while the process runs
MaxElapsed == 1

Elapsed(clock) ==
    (clock.seconds - ClockStart.seconds) * 1000 + clock.millis - ClockStart.millis

\* a process that calls generateICS twice: on one event, or on two events
\* that differ in their titles
IcsInit ==
    /\ pc = "call" /\ op = "generateICS"
    /\ ParserAtRest /\ FormatAtRest /\ PopupAtRest /\ ScanAtRest /\ UtilAtRest
    /\ \E e \in IcsEvents :
          events \in { <<e, e>>, <<e, [e EXCEPT !.title = <<"E","v","e","n","t"," ","2">>]>> }
    /\ now = ClockStart
    /\ calls = << >>

\* one call of generateICS, on the next event
CallGenerateICS ==
    /\ pc = "call" /\ op = "generateICS"
    /\ \E random \in MathRandomStrings :
          calls' = Append(calls,
                          [event  |-> events[Len(calls) + 1],
                           clock  |-> now,
                           random |-> random,
                           ics    |-> generateICS(events[Len(calls) + 1], now, random)])
    /\ pc' = IF Len(calls') = Len(events) THEN "done" ELSE "call"
    /\ UNCHANGED <<op, events, now, parserVars, formatVars, popupVars, scanVars, utilVars>>

\* the clock advances by a millisecond
Tick ==
    /\ pc = "call" /\ op = "generateICS"
    /\ Elapsed(now) < MaxElapsed
    /\ now' = [seconds |-> now.seconds + ((now.millis + 1) \div 1000),
               millis  |-> (now.millis + 1) % 1000]
    /\ UNCHANGED <<pc, op, events, calls, parserVars, formatVars, popupVars, scanVars, utilVars>>

IcsNext == CallGenerateICS \/ Tick

IcsSpec == IcsInit /\ [][IcsNext]_vars

--------------------------------------------------------------------------
(* The popup: handleExport and the export records (src/unnamed/part_001) *)

\* String.prototype.startsWith
startsWith(text, prefix) ==
    Len(text) >= Len(prefix) /\ SubSeq(text, 1, Len(prefix)) = prefix

\* lines 117-122: lower case, every run of other characters than a-z and 0-9
\* replaced by one hyphen, hyphens at both ends removed
slugify(title) ==
    Bind(toLowerCase(title), LAMBDA lower :
         LET kept(i) == lower[i] \in Range(LowerLetters) \cup Digit
             out[lo \in 1..(Len(lower) + 1), hi \in 0..Len(lower)] ==
                 IF lo > hi THEN << >>
                 ELSE IF lo = hi
                      THEN (IF kept(lo) THEN <<lower[lo]>>
                            ELSE IF lo > 1 /\ ~kept(lo - 1) THEN << >>
                            ELSE <<"-">>)
                 ELSE out[lo, (lo + hi) \div 2] \o out[((lo + hi) \div 2) + 1, hi]
         IN  Bind(out[1, Len(lower)], LAMBDA dashed :
                  SubSeq(dashed,
                         IF dashed # << >> /\ dashed[1] = "-" THEN 2 ELSE 1,
                         IF dashed # << >> /\ dashed[Len(dashed)] = "-"
                         THEN Len(dashed) - 1 ELSE Len(dashed))))

\* the fault of reading a property of null
TypeError == [thrown |-> "TypeError"]

\* lines 81-100: the parts of the description (an emoji is written by its
\* code point)
descriptionParts(event, eventUrl) ==
    << <<"U+1F550", " ">> \o event.dateTimeStr,
       <<"U+1F4CD", " ">> \o (IF Truthy(event.location) THEN event.location ELSE <<"T","B","D">>),
       <<"U+1F464">> \o <<" ","H","o","s","t",":"," ","C","o","l","e"," ","M","e","d","i","n">>,
       IF event.rsvpStatus = "going"
       THEN <<"U+2705">> \o <<" ","R","S","V","P",":"," ","G","o","i","n","g">>
       ELSE <<"U+26A0", "U+FE0F">> \o <<" ","R","S","V","P",":"," ","N","o","t"," ","y","e","t"," ","c","o","n","f","i","r","m","e","d">>,
       << >>,
       <<"U+1F517", " ">> \o eventUrl,
       << >>,
       <<"U+2014">>,
       <<"D","y","n","a","m","o","u","s"," ","C","o","m","m","u","n","i","t","y">> >>

\* lines 72-110; clock is what new Date() reads.  With no match from
\* parseEventDateTime, line 104 reads parsed.startDate of null and throws.
prepareEventForExport(event, clock) ==
    Bind(parseEventDateTime(event.dateTimeStr, DateOfClock(clock).fullYear), LAMBDA parsed :
    Bind(IF startsWith(event.url, <<"h","t","t","p">>) THEN event.url
         ELSE <<"h","t","t","p","s",":","/","/","c","o","m","m","u","n","i","t","y",".","d","y","n","a","m","o","u","s",".","a","i">> \o event.url, LAMBDA eventUrl :
         IF parsed = Null THEN TypeError
         ELSE [title       |-> event.title,
               startDate   |-> parsed.startDate,
               endDate     |-> parsed.endDate,
               location    |-> event.location,
               url         |-> eventUrl,
               description |-> join(descriptionParts(event, eventUrl), <<LF>>)]))

\* line 147: event.slug || slugify(event.title)
SlugOf(event) == IF Truthy(event.slug) THEN event.slug ELSE slugify(event.title)

\* lines 455 and 468: exports.some(e => e.slug === slug && e.exportType === exportType)
HasExport(exports, slug, exportType) ==
    \E i \in 1..Len(exports) : exports[i].slug = slug /\ exports[i].exportType = exportType

\* line 477: exports.some(e => e.slug === slug)
hasAnyExport(exports, slug) == \E i \in 1..Len(exports) : exports[i].slug = slug

\* lines 155-176: the export action of a type, kept with the event the link
\* or the file is generated from and with the slug of the invocation (line 147)
ExportAction(type, slug, exportEvent) ==
    [action |-> IF type = "ics" THEN "download" ELSE "window.open",
     type   |-> type,
     slug   |-> slug,
     event  |-> exportEvent]

ExportTypes == {"google", "outlook", "ics"}

\* events as the content script scrapes them (content.js, lines 148-156): the
\* event of the tests, one whose card has no time range ("TBD" is the first
\* span, lines 118-120), one whose range has no AM/PM marker and no timezone
\* (it matches line 116) and one whose href ends in a slash (an empty slug)
PopupEvents ==
    { [title |-> <<"C","o","m","m","u","n","i","t","y"," ","H","a","n","g","o","u","t">>, url |-> <<"/","c","/","l","i","v","e","-","e","v","e","n","t","s","/","c","o","m","m","u","n","i","t","y","-","h","a","n","g","o","u","t","-","1","2","3">>, slug |-> <<"c","o","m","m","u","n","i","t","y","-","h","a","n","g","o","u","t","-","1","2","3">>,
       dateTimeStr |-> Render(BaseEvent), location |-> <<"V","i","r","t","u","a","l">>, rsvpStatus |-> "going"],
      [title |-> <<"O","f","f","i","c","e"," ","H","o","u","r","s">>, url |-> <<"/","c","/","l","i","v","e","-","e","v","e","n","t","s","/","o","f","f","i","c","e","-","h","o","u","r","s","-","7">>, slug |-> <<"o","f","f","i","c","e","-","h","o","u","r","s","-","7">>,
       dateTimeStr |-> <<"T","B","D">>, location |-> <<"T","B","D">>, rsvpStatus |-> "none"],
      [title |-> <<"Q","&","A"," ","L","i","v","e">>, url |-> <<"/","c","/","l","i","v","e","-","e","v","e","n","t","s","/","q","a","-","l","i","v","e","-","9">>, slug |-> <<"q","a","-","l","i","v","e","-","9">>,
       dateTimeStr |-> <<"T","h","u","r","s","d","a","y",","," ","D","e","c"," ","4",","," ","1","0",":","0","0"," ",EnDash," ","1","1",":","0","0">>, location |-> <<"T","B","D">>, rsvpStatus |-> "none"],
      [title |-> <<"W","o","r","k","s","h","o","p",":"," ","A","I",","," ","P","a","r","t"," ","2">>, url |-> <<"/","c","/","l","i","v","e","-","e","v","e","n","t","s","/","w","o","r","k","s","h","o","p","/">>, slug |-> << >>,
       dateTimeStr |-> Render([BaseEvent EXCEPT !.per = <<"P","M">>]),
       location |-> <<"V","i","r","t","u","a","l">>, rsvpStatus |-> "none"] }

\* what chrome.storage.local holds under exportedEvents when the popup opens
StoredExports ==
    { << >>,
      << [slug |-> <<"c","o","m","m","u","n","i","t","y","-","h","a","n","g","o","u","t","-","1","2","3">>, exportType |-> "google", timestamp |-> ClockStart] >>,
      << [slug |-> <<"o","f","f","i","c","e","-","h","o","u","r","s","-","7">>, exportType |-> "rsvp", timestamp |-> ClockStart] >>,
      << [slug |-> <<"c","o","m","m","u","n","i","t","y","-","h","a","n","g","o","u","t","-","1","2","3">>, exportType |-> "outlook", timestamp |-> ClockStart],
         [slug |-> <<"w","o","r","k","s","h","o","p","-","a","i","-","p","a","r","t","-","2">>, exportType |-> "ics", timestamp |-> ClockStart],
         [slug |-> <<"q","a","-","l","i","v","e","-","9">>, exportType |-> "rsvp", timestamp |-> ClockStart] >> }

\* the clicks on export buttons while the popup is open
MaxClicks == 2

\* createEventCard without the rsvp test of line 283
DisabledAtRenderOwnTypeOnly(cardEvents, cache) ==
    { b \in (1..Len(cardEvents)) \X ExportTypes :
        HasExport(cache, SlugOf(cardEvents[b[1]]), b[2]) }

\* lines 281-326: the buttons createEventCard disables, <<card, type>>
DisabledAtRender(cardEvents, cache) ==
    { b \in (1..Len(cardEvents)) \X ExportTypes :
        \/ HasExport(cache, SlugOf(cardEvents[b[1]]), "rsvp")
        \/ HasExport(cache, SlugOf(cardEvents[b[1]]), b[2]) }

\* lines 286-291: the cards createEventCard gives a badge
BadgesAtRender(cardEvents, cache) ==
    { i \in 1..Len(cardEvents) : hasAnyExport(cache, SlugOf(cardEvents[i])) }

\* initPopup (lines 498-520) has loaded the stored records into the cache; the
\* scraped events are still to be rendered
PopupInit ==
    /\ pc = "initPopup" /\ op = "popup"
    /\ ParserAtRest /\ FormatAtRest /\ ScanAtRest /\ UtilAtRest
    /\ events = << >> /\ calls = << >> /\ now = ClockStart
    /\ \E stored \in StoredExports :
          /\ storage = [exportedEvents |-> stored, requests |-> << >>]
          /\ exportedEventsCache = stored
    /\ view = Null
    /\ tasks = << >>
    /\ effects = << >>

\* lines 377-398 (called at line 523) with createEventCard, lines 208-333:
\* renderEvents renders a card with its three export buttons for each of the
\* two scraped events
RenderEvents ==
    /\ pc = "initPopup" /\ op = "popup"
    /\ \E cardEvents \in PopupEvents \X PopupEvents :
          view' = [cards    |-> cardEvents,
                   disabled |-> DisabledAtRender(cardEvents, exportedEventsCache),
                   badges   |-> BadgesAtRender(cardEvents, exportedEventsCache),
                   toast    |-> Null]
    /\ pc' = "open"
    /\ UNCHANGED <<op, now, events, calls, storage, exportedEventsCache, tasks, effects>>
    /\ UNCHANGED <<parserVars, formatVars, scanVars, utilVars>>

\* a storage request of a task joins the queue of chrome.storage.local
Request(task, kind) == [task |-> task, kind |-> kind]

\* lines 145-150: a click on an enabled export button calls handleExport, which
\* runs up to its first await: prepareEventForExport, the slug, and the
\* storage request of isEventExported.  A fault in prepareEventForExport
\* rejects the promise handleExport returns; the handlers of lines 305, 316
\* and 327 drop that promise.
ClickExport ==
    /\ pc = "open" /\ op = "popup"
    /\ Len(tasks) < MaxClicks
    /\ \E card \in 1..Len(view.cards), type \in ExportTypes :
          /\ <<card, type>> \notin view.disabled
          /\ \E exportEvent \in { prepareEventForExport(view.cards[card], now) } :
                IF exportEvent = TypeError
                THEN /\ tasks' = Append(tasks, [type |-> type, card |-> card,
                                                exportEvent |-> exportEvent,
                                                slug |-> Null, exports |-> Null,
                                                pc |-> "rejected"])
                     /\ UNCHANGED storage
                ELSE /\ tasks' = Append(tasks, [type |-> type, card |-> card,
                                                exportEvent |-> exportEvent,
                                                slug |-> SlugOf(view.cards[card]),
                                                exports |-> Null,
                                                pc |-> "isEventExported"])
                     /\ storage' = [storage EXCEPT
                                      !.requests = Append(@, Request(Len(tasks) + 1, "get"))]
    /\ UNCHANGED <<pc, op, now, events, calls, exportedEventsCache, view, effects>>
    /\ UNCHANGED <<parserVars, formatVars, scanVars, utilVars>>

\* the task whose storage request is answered next
Answered == storage.requests[1].task

\* lines 451-458 and 150-179: the storage answers isEventExported; an export
\* already recorded ends handleExport, otherwise the export action is
\* performed and trackExport sends its read request
IsEventExportedAnswered ==
    /\ storage.requests # << >>
    /\ tasks[Answered].pc = "isEventExported"
    /\ IF HasExport(storage.exportedEvents, tasks[Answered].slug, tasks[Answered].type)
       THEN /\ tasks' = [tasks EXCEPT ![Answered].pc = "fulfilled"]
            /\ storage' = [storage EXCEPT !.requests = Tail(@)]
            /\ UNCHANGED effects
       ELSE /\ effects' = Append(effects,
                                 ExportAction(tasks[Answered].type, tasks[Answered].slug,
                                              tasks[Answered].exportEvent))
            /\ tasks' = [tasks EXCEPT ![Answered].pc = "trackExport.get"]
            /\ storage' = [storage EXCEPT
                             !.requests = Append(Tail(@), Request(Answered, "get"))]
    /\ UNCHANGED <<pc, op, now, events, calls, exportedEventsCache, view>>
    /\ UNCHANGED <<parserVars, formatVars, scanVars, utilVars>>

\* lines 428-436: the storage answers trackExport's read; the record is pushed
\* onto the array that was read and the write request is sent
TrackExportRead ==
    /\ storage.requests # << >>
    /\ tasks[Answered].pc = "trackExport.get"
    /\ tasks' = [tasks EXCEPT
                   ![Answered].exports =
                       Append(storage.exportedEvents,
                              [slug |-> tasks[Answered].slug,
                               exportType |-> tasks[Answered].type,
                               timestamp |-> now]),
                   ![Answered].pc = "trackExport.set"]
    /\ storage' = [storage EXCEPT !.requests = Append(Tail(@), Request(Answered, "set"))]
    /\ UNCHANGED <<pc, op, now, events, calls, exportedEventsCache, view, effects>>
    /\ UNCHANGED <<parserVars, formatVars, scanVars, utilVars>>

\* lines 436-440 and 181-199: the storage has written the array; the cache is
\* replaced by it, and handleExport disables the first button of its type in
\* the document, gives that button's card a badge, and shows the toast
TrackExportWritten ==
    /\ storage.requests # << >>
    /\ tasks[Answered].pc = "trackExport.set"
    /\ storage' = [exportedEvents |-> tasks[Answered].exports,
                   requests |-> Tail(storage.requests)]
    /\ exportedEventsCache' = tasks[Answered].exports
    /\ view' = [view EXCEPT
                  !.disabled = @ \cup { <<1, tasks[Answered].type>> },
                  !.badges   = @ \cup {1},
                  !.toast    = tasks[Answered].type]
    /\ tasks' = [tasks EXCEPT ![Answered].pc = "fulfilled"]
    /\ UNCHANGED <<pc, op, now, events, calls, effects>>
    /\ UNCHANGED <<parserVars, formatVars, scanVars, utilVars>>

PopupNext ==
    \/ RenderEvents
    \/ ClickExport
    \/ IsEventExportedAnswered
    \/ TrackExportRead
    \/ TrackExportWritten

PopupSpec == PopupInit /\ [][PopupNext]_vars

--------------------------------------------------------------------------
(* The scan of the page: scanPageForEvents of the popup                     *)
(* (src/unnamed/part_001) and handleMessage of the content script           *)
(* (src/src/content.js)                                                     *)

\* new Error(message)
NewError(message) == [message |-> message]

\* the text a template literal writes for a value
TemplateText(value) == IF value = Undefined THEN <<"u","n","d","e","f","i","n","e","d">> ELSE value

\* handleMessage without the else branch of lines 26-31
handleMessageScanOnly(message, scrape) ==
    [responses |->
        IF message.action = <<"s","c","a","n","E","v","e","n","t","s">>
        THEN IF scrape.thrown
             THEN << [success |-> FALSE, error |-> scrape.error.message] >>
             ELSE << [success |-> TRUE, events |-> scrape.events] >>
        ELSE << >>,
     returned |-> TRUE]

\* content.js, lines 12-35: the calls of sendResponse, in order, and the
\* value returned; scrape is what scrapeEvents does on the page (it returns
\* events or throws)
handleMessage(message, scrape) ==
    [responses |->
        IF message.action = <<"s","c","a","n","E","v","e","n","t","s">>
        THEN IF scrape.thrown
             THEN << [success |-> FALSE, error |-> scrape.error.message] >>
             ELSE << [success |-> TRUE, events |-> scrape.events] >>
        ELSE << [success |-> FALSE,
                 error |-> <<"U","n","k","n","o","w","n"," ","a","c","t","i","o","n",":"," ">> \o TemplateText(message.action)] >>,
     returned |-> TRUE]


\* what chrome.tabs.query hands to its callback: nothing, no tab, the active tab
TabsAnswers ==
    { [defined |-> FALSE, list |-> << >>],
      [defined |-> TRUE, list |-> << >>],
      [defined |-> TRUE, list |-> << [id |-> 123] >>] }

\* what scrapeEvents does on the page
ScrapeOutcomes ==
    { [thrown |-> FALSE, events |-> list, error |-> Null] :
        list \in { << >> } \cup { <<e>> : e \in PopupEvents }
                 \cup { <<e, e>> : e \in PopupEvents } }
    \cup { [thrown |-> TRUE, events |-> << >>, error |-> NewError(m)] :
             m \in { <<"D","O","M"," ","p","a","r","s","i","n","g"," ","f","a","i","l","e","d">>, << >> } }

\* answers of a receiver other than handleMessage (integration.test.js, lines
\* 541-583): no answer, a failure with and without a message, a success
OtherResponses ==
    { [defined |-> FALSE],
      [defined |-> TRUE, success |-> FALSE, error |-> <<"S","c","a","n"," ","f","a","i","l","e","d">>],
      [defined |-> TRUE, success |-> FALSE],
      [defined |-> TRUE, success |-> TRUE] }

\* the actions of messages that do not come from scanPageForEvents
OtherActions == { <<"u","n","k","n","o","w","n","A","c","t","i","o","n">>, <<"s","c","r","a","p","e","E","v","e","n","t","s">>, Undefined }

\* the messages other senders send while the page is scanned
MaxOtherMessages == 1

\* the popup is open and has not called scanPageForEvents yet
ScanInit ==
    /\ pc = "open" /\ op = "scan"
    /\ ParserAtRest /\ FormatAtRest /\ IcsAtRest /\ PopupAtRest /\ UtilAtRest
    /\ \E tabs \in TabsAnswers, scrape \in ScrapeOutcomes,
          receiver \in {"none", "content", "other"}, other \in OtherResponses :
          browser = [tabs |-> tabs, scrape |-> scrape, receiver |-> receiver,
                     other |-> IF receiver = "other" THEN other ELSE Null]
    /\ scanPage = [pc |-> "idle", sent |-> << >>, delivered |-> Null, settled |-> << >>]
    /\ messages = << >>
    /\ handled = << >>

\* part_001, lines 43-45: the promise is created and chrome.tabs.query called
ScanPageForEvents ==
    /\ op = "scan" /\ scanPage.pc = "idle"
    /\ scanPage' = [scanPage EXCEPT !.pc = "tabs.query"]
    /\ UNCHANGED <<pc, op, browser, messages, handled>>
    /\ UNCHANGED <<parserVars, formatVars, icsVars, popupVars, utilVars>>

\* part_001, lines 45-51: the callback of chrome.tabs.query
TabsQueryAnswered ==
    /\ op = "scan" /\ scanPage.pc = "tabs.query"
    /\ IF ~browser.tabs.defined \/ Len(browser.tabs.list) = 0
       THEN /\ scanPage' = [scanPage EXCEPT
                              !.pc = "returned",
                              !.settled = Append(@, [how |-> "reject",
                                                     value |-> NewError(<<"N","o"," ","a","c","t","i","v","e"," ","t","a","b"," ","f","o","u","n","d">>)])]
            /\ UNCHANGED messages
       ELSE /\ scanPage' = [scanPage EXCEPT
                              !.pc = "tabs.sendMessage",
                              !.sent = Append(@, [tab |-> browser.tabs.list[1].id,
                                                  message |-> [action |-> <<"s","c","a","n","E","v","e","n","t","s">>]])]
            /\ messages' = IF browser.receiver = "content"
                           THEN Append(messages, [message |-> [action |-> <<"s","c","a","n","E","v","e","n","t","s">>],
                                                  sender |-> "popup"])
                           ELSE messages
    /\ UNCHANGED <<pc, op, browser, handled>>
    /\ UNCHANGED <<parserVars, formatVars, icsVars, popupVars, utilVars>>

\* another sender of the extension sends a message to the content script
OtherMessage ==
    /\ op = "scan" /\ browser.receiver = "content"
    /\ Cardinality({ i \in 1..Len(messages) : messages[i].sender = "other" })
       + Cardinality({ i \in 1..Len(handled) : handled[i].sender = "other" })
       < MaxOtherMessages
    /\ \E action \in OtherActions :
          messages' = Append(messages, [message |-> [action |-> action], sender |-> "other"])
    /\ UNCHANGED <<pc, op, browser, scanPage, handled>>
    /\ UNCHANGED <<parserVars, formatVars, icsVars, popupVars, utilVars>>

\* content.js, lines 12-35 and 38: the listener handles the next message
HandleMessage ==
    /\ op = "scan" /\ messages # << >>
    /\ \E call \in { handleMessage(messages[1].message, browser.scrape) } :
          handled' = Append(handled, [message   |-> messages[1].message,
                                      sender    |-> messages[1].sender,
                                      responses |-> call.responses,
                                      returned  |-> call.returned])
    /\ messages' = Tail(messages)
    /\ UNCHANGED <<pc, op, browser, scanPage>>
    /\ UNCHANGED <<parserVars, formatVars, icsVars, popupVars, utilVars>>

\* what chrome hands to the callback of chrome.tabs.sendMessage: with no
\* receiver chrome.runtime.lastError is set and there is no response,
\* otherwise the first answer of the receiver
Delivered ==
    IF browser.receiver = "none"
    THEN { [lastError |-> [message |-> <<"C","o","u","l","d"," ","n","o","t"," ","e","s","t","a","b","l","i","s","h"," ","c","o","n","n","e","c","t","i","o","n">>], response |-> [defined |-> FALSE]] }
    ELSE IF browser.receiver = "other"
    THEN { [lastError |-> Null, response |-> browser.other] }
    ELSE { [lastError |-> Null,
            response  |-> [defined |-> TRUE] @@ handled[i].responses[1]] :
            i \in { k \in 1..Len(handled) : handled[k].sender = "popup" } }

\* response.events of a response
EventsOf(response) ==
    IF "events" \in DOMAIN response THEN response.events ELSE Undefined

\* response.error of a response
ErrorOf(response) ==
    IF "error" \in DOMAIN response THEN response.error ELSE Undefined

\* lines 52-61 without the default message of line 60
SettlementNoDefault(d) ==
    IF d.lastError # Null
    THEN [how |-> "reject", value |-> NewError(d.lastError.message)]
    ELSE IF d.response.defined /\ d.response.success
    THEN [how |-> "resolve", value |-> EventsOf(d.response)]
    ELSE [how |-> "reject",
          value |-> NewError(IF d.response.defined THEN ErrorOf(d.response) ELSE Undefined)]

\* part_001, lines 52-61: how the callback of chrome.tabs.sendMessage settles
\* the promise
Settlement(d) ==
    IF d.lastError # Null
    THEN [how |-> "reject", value |-> NewError(d.lastError.message)]
    ELSE IF d.response.defined /\ d.response.success
    THEN [how |-> "resolve", value |-> EventsOf(d.response)]
    ELSE [how |-> "reject",
          value |-> NewError(IF d.response.defined /\ Truthy(ErrorOf(d.response))
                             THEN ErrorOf(d.response)
                             ELSE <<"F","a","i","l","e","d"," ","t","o"," ","s","c","a","n"," ","e","v","e","n","t","s">>)]

\* part_001, lines 51-62: the callback of chrome.tabs.sendMessage
SendMessageAnswered ==
    /\ op = "scan" /\ scanPage.pc = "tabs.sendMessage"
    /\ \E d \in Delivered :
          scanPage' = [scanPage EXCEPT
              !.pc = "returned",
              !.delivered = d,
              !.settled = Append(@, Settlement(d))]
    /\ UNCHANGED <<pc, op, browser, messages, handled>>
    /\ UNCHANGED <<parserVars, formatVars, icsVars, popupVars, utilVars>>

ScanNext ==
    \/ ScanPageForEvents
    \/ TabsQueryAnswered
    \/ OtherMessage
    \/ HandleMessage
    \/ SendMessageAnswered

ScanSpec == ScanInit /\ [][ScanNext]_vars

--------------------------------------------------------------------------
(* isValidLiveEventsPage (src/unnamed/part_001, lines 20-37)                *)

\* null, next to Undefined
NullValue == <<"null">>

\* the first position from `from` on at which the text has one of the
\* characters, Len(text) + 1 when there is none
FirstIndex(text, chars, from) ==
    Bind({ i \in from..Len(text) : text[i] \in chars }, LAMBDA found :
         IF found = {} THEN Len(text) + 1
         ELSE CHOOSE i \in found : \A j \in found : i <= j)

\* the last position at which the text has the character, 0 when there is none
LastIndex(text, c) ==
    Bind({ i \in 1..Len(text) : text[i] = c }, LAMBDA found :
         IF found = {} THEN 0
         ELSE CHOOSE i \in found : \A j \in found : j <= i)

\* new URL(text) for a text without a base: a text with no scheme throws a
\* TypeError; of scheme://userinfo@host:port/path?query#fragment the hostname
\* is the host in lower case and the pathname the path, "/" when it is empty
\* (the schemes of the inputs are http and https, followed by //)
NewURL(text) ==
    Bind(FirstIndex(text, {":"}, 1), LAMBDA colon :
         IF \/ colon > Len(text)
            \/ colon = 1
            \/ \E i \in 1..(colon - 1) :
                   text[i] \notin Range(LowerLetters) \cup Range(UpperLetters)
         THEN TypeError
         ELSE Bind(FirstIndex(text, {"/", "?", "#"}, colon + 3), LAMBDA authorityEnd :
              Bind(SubSeq(text, colon + 3, authorityEnd - 1), LAMBDA authority :
              Bind(SubSeq(authority, LastIndex(authority, "@") + 1, Len(authority)), LAMBDA hostPort :
              Bind(SubSeq(text, authorityEnd, FirstIndex(text, {"?", "#"}, authorityEnd) - 1), LAMBDA path :
                   IF hostPort = << >> THEN TypeError
                   ELSE [hostname |-> toLowerCase(SubSeq(hostPort, 1,
                                          FirstIndex(hostPort, {":"}, 1) - 1)),
                         pathname |-> IF path = << >> THEN <<"/">> ELSE path])))))

\* pathname.replace(/\/$/, '')
RemoveTrailingSlash(pathname) ==
    IF pathname # << >> /\ pathname[Len(pathname)] = "/"
    THEN SubSeq(pathname, 1, Len(pathname) - 1)
    ELSE pathname

\* isValidLiveEventsPage without the replace of line 32
isValidLiveEventsPageNoSlash(url) ==
    IF url \in {Undefined, NullValue, << >>} THEN FALSE
    ELSE Bind(NewURL(url), LAMBDA parsedUrl :
              IF parsedUrl = TypeError THEN FALSE
              ELSE IF parsedUrl.hostname # <<"c","o","m","m","u","n","i","t","y",".","d","y","n","a","m","o","u","s",".","a","i">> THEN FALSE
              ELSE parsedUrl.pathname = <<"/","c","/","l","i","v","e","-","e","v","e","n","t","s">>)

\* lines 20-37
isValidLiveEventsPage(url) ==
    IF url \in {Undefined, NullValue, << >>} THEN FALSE
    ELSE Bind(NewURL(url), LAMBDA parsedUrl :
              IF parsedUrl = TypeError THEN FALSE
              ELSE IF parsedUrl.hostname # <<"c","o","m","m","u","n","i","t","y",".","d","y","n","a","m","o","u","s",".","a","i">> THEN FALSE
              ELSE RemoveTrailingSlash(parsedUrl.pathname) = <<"/","c","/","l","i","v","e","-","e","v","e","n","t","s">>)

\* the parts URLs are written from (integration.test.js, lines 435-457)
UrlParts ==
    [scheme   : { <<"h","t","t","p","s">>, <<"h","t","t","p">> },
     userinfo : { << >>, <<"c","o","m","m","u","n","i","t","y",".","d","y","n","a","m","o","u","s",".","a","i">> },
     host     : { <<"c","o","m","m","u","n","i","t","y",".","d","y","n","a","m","o","u","s",".","a","i">>, <<"C","o","m","m","u","n","i","t","y",".","D","y","n","a","m","o","u","s",".","A","I">>, <<"o","t","h","e","r","-","c","o","m","m","u","n","i","t","y",".","c","i","r","c","l","e",".","s","o">>, <<"g","o","o","g","l","e",".","c","o","m">>, <<"c","o","m","m","u","n","i","t","y",".","d","y","n","a","m","o","u","s",".","a","i",".","e","x","a","m","p","l","e",".","c","o","m">> },
     port     : { << >>, <<"8","0","8","0">> },
     path     : { << >>, <<"/">>, <<"/","c","/","l","i","v","e","-","e","v","e","n","t","s">>, <<"/","c","/","l","i","v","e","-","e","v","e","n","t","s">> \o <<"/">>, <<"/","c","/","l","i","v","e","-","e","v","e","n","t","s">> \o <<"/", "/">>, <<"/","c","/","l","i","v","e","-","e","v","e","n","t","s">> \o <<"/","s","p","e","c","i","f","i","c","-","e","v","e","n","t">>, <<"/","c","/","g","e","n","e","r","a","l">>, <<"/","c","/","L","i","v","e","-","E","v","e","n","t","s">> },
     query    : { << >>, <<"t","a","b","=","u","p","c","o","m","i","n","g">>, <<"n","e","x","t","=","/","c","/","l","i","v","e","-","e","v","e","n","t","s","/">> },
     fragment : { << >>, <<"/","c","/","l","i","v","e","-","e","v","e","n","t","s">> }]

\* the text of a URL written from its parts
RenderUrl(parts) ==
    parts.scheme \o <<":", "/", "/">>
    \o (IF parts.userinfo = << >> THEN << >> ELSE parts.userinfo \o <<"@">>)
    \o parts.host
    \o (IF parts.port = << >> THEN << >> ELSE <<":">> \o parts.port)
    \o parts.path
    \o (IF parts.query = << >> THEN << >> ELSE <<"?">> \o parts.query)
    \o (IF parts.fragment = << >> THEN << >> ELSE <<"#">> \o parts.fragment)

\* arguments that are no URL (lines 520-528), and a host and path without a
\* scheme
NoUrls == { Undefined, NullValue, << >>, <<"n","o","t","-","a","-","v","a","l","i","d","-","u","r","l">>, <<"c","o","m","m","u","n","i","t","y",".","d","y","n","a","m","o","u","s",".","a","i","/","c","/","l","i","v","e","-","e","v","e","n","t","s">> }

\* the arguments of isValidLiveEventsPage, with the parts a URL was written from
PageArguments ==
    { [url |-> RenderUrl(parts), isUrl |-> TRUE, parts |-> parts] : parts \in UrlParts }
    \cup { [url |-> text, isUrl |-> FALSE, parts |-> Null] : text \in NoUrls }

--------------------------------------------------------------------------
(* generateGoogleCalendarLink (src/src/utils/calendarLinks.js)              *)

\* characters outside the Basic Latin block, with their code points
WideCodePoints ==
    { <<EnDash, 8211>>, <<"U+2014", 8212>>, <<"U+00E9", 233>>, <<"U+1F517", 128279>> }

\* the code point of a character
codePointAt(c) ==
    IF \E p \in WideCodePoints : p[1] = c
    THEN (CHOOSE p \in WideCodePoints : p[1] = c)[2]
    ELSE charCodeAt(c)

\* the bytes of a code point in UTF-8
Utf8(cp) ==
    IF cp < 128 THEN <<cp>>
    ELSE IF cp < 2048 THEN <<192 + (cp \div 64), 128 + (cp % 64)>>
    ELSE IF cp < 65536
         THEN <<224 + (cp \div 4096), 128 + ((cp \div 64) % 64), 128 + (cp % 64)>>
    ELSE <<240 + (cp \div 262144), 128 + ((cp \div 4096) % 64),
           128 + ((cp \div 64) % 64), 128 + (cp % 64)>>

\* a byte as a percent sign and two upper-case hexadecimal digits
PercentByte(b) ==
    <<"%">> \o [i \in 1..2 |-> ToUpperChar(padStart(toString(b, 16), 2, "0")[i])]

\* the application/x-www-form-urlencoded form of a character: letters,
\* digits, *, -, . and _ as they are, a space as +, every other character as
\* the percent-encoded bytes of its UTF-8 form
FormEncodedChar(c) ==
    IF c \in Word \cup {"*", "-", "."} THEN <<c>>
    ELSE IF c = " " THEN <<"+">>
    ELSE Bind(Utf8(codePointAt(c)), LAMBDA bytes :
              LET out[k \in 0..Len(bytes)] ==
                      IF k = 0 THEN << >> ELSE out[k - 1] \o PercentByte(bytes[k])
              IN  out[Len(bytes)])

FormEncoded(text) ==
    LET out[lo \in 1..(Len(text) + 1), hi \in 0..Len(text)] ==
            IF lo > hi THEN << >>
            ELSE IF lo = hi THEN FormEncodedChar(text[lo])
            ELSE out[lo, (lo + hi) \div 2] \o out[((lo + hi) \div 2) + 1, hi]
    IN  out[1, Len(text)]

\* URLSearchParams.prototype.toString of a list of <<name, value>> pairs
ParamsToString(params) ==
    join([k \in 1..Len(params) |->
             FormEncoded(params[k][1]) \o <<"=">> \o FormEncoded(params[k][2])],
         <<"&">>)

\* generateGoogleCalendarLink with the location set whenever the event has
\* the property
generateGoogleCalendarLinkLocationDefined(event) ==
    <<"h","t","t","p","s",":","/","/","w","w","w",".","g","o","o","g","l","e",".","c","o","m","/","c","a","l","e","n","d","a","r","/","r","e","n","d","e","r">> \o <<"?">> \o ParamsToString(
        << <<<<"a","c","t","i","o","n">>, <<"T","E","M","P","L","A","T","E">>>>,
           <<<<"t","e","x","t">>, event.title>>,
           <<<<"d","a","t","e","s">>, formatISODate(event.startDate) \o <<"/">> \o formatISODate(event.endDate)>> >>
        \o (IF event.location # Undefined THEN << <<<<"l","o","c","a","t","i","o","n">>, event.location>> >> ELSE << >>)
        \o (IF Truthy(event.description) THEN << <<<<"d","e","t","a","i","l","s">>, event.description>> >> ELSE << >>))

\* lines 15-37
generateGoogleCalendarLink(event) ==
    <<"h","t","t","p","s",":","/","/","w","w","w",".","g","o","o","g","l","e",".","c","o","m","/","c","a","l","e","n","d","a","r","/","r","e","n","d","e","r">> \o <<"?">> \o ParamsToString(
        << <<<<"a","c","t","i","o","n">>, <<"T","E","M","P","L","A","T","E">>>>,
           <<<<"t","e","x","t">>, event.title>>,
           <<<<"d","a","t","e","s">>, formatISODate(event.startDate) \o <<"/">> \o formatISODate(event.endDate)>> >>
        \o (IF Truthy(event.location) THEN << <<<<"l","o","c","a","t","i","o","n">>, event.location>> >> ELSE << >>)
        \o (IF Truthy(event.description) THEN << <<<<"d","e","t","a","i","l","s">>, event.description>> >> ELSE << >>))

\* the events links are generated for (dateParser.test.js, lines 609-697): the
\* titles, Dates, locations and descriptions of the tests, no and empty
\* locations and descriptions, and texts with the characters the query
\* string is written with
LinkEvents ==
    Bind({ NewDateSeconds(2025, 11, 15, 13, 0, 0), NewDateSeconds(2025, 11, 15, 14, 0, 0), NewDateSeconds(999, 0, 5, 9, 5, 0) }, LAMBDA linkDates :
         [title       : { <<"C","o","m","m","u","n","i","t","y"," ","H","a","n","g","o","u","t">>, <<"O","f","f","i","c","e"," ","H","o","u","r","s","/"," ","Q","&","A">> },
          startDate   : linkDates,
          endDate     : linkDates,
          location    : { Undefined, << >>, <<"V","i","r","t","u","a","l">>, <<"R","o","o","m"," ","1","+","2",","," ","5","0","%"," ","="," ","#","7","?">> },
          description : { Undefined, << >>, <<"J","o","i","n"," ","u","s","!">> \o <<LF, "U+1F517", " ">> \o <<"h","t","t","p","s",":","/","/","c","o","m","m","u","n","i","t","y",".","d","y","n","a","m","o","u","s",".","a","i","/","c","/","l","i","v","e","-","e","v","e","n","t","s","/","x","-","1">>, <<"a","&","l","o","c","a","t","i","o","n","=","b">> }])

--------------------------------------------------------------------------
(* Single calls of functions: foldLine and escapeICSText                    *)
(* (src/src/utils/icsGenerator.js), isValidLiveEventsPage                   *)
(* (src/unnamed/part_001), generateGoogleCalendarLink                       *)
(* (src/src/utils/calendarLinks.js)                                         *)

\* a line of n characters, each the last digit of its position
Ruler(n) == [i \in 1..n |-> DigitChars[(i % 10) + 1]]

\* the lengths of the lines folded: up to three continuation lines, with the
\* lengths next to 75, 75 + 74, 75 + 2 * 74 and 75 + 3 * 74
FoldLengths == {0, 1, 74, 75, 76, 148, 149, 150, 222, 223, 224, 297, 298}

\* the lines generateICS hands to foldLine (lines 72-102 and 105): DESCRIPTION
\* lines cut to every length, SUMMARY lines of escaped titles, URL lines of the URLs as
\* they are (line 94), among them a long URL whose href holds a line break
\* followed by a space
FoldLines ==
    { SubSeq(<<"D","E","S","C","R","I","P","T","I","O","N",":">> \o Ruler(298), 1, n) :
        n \in FoldLengths }
    \cup { <<"S","U","M","M","A","R","Y",":">> \o escapeICSText(t) : t \in Titles }
    \cup { <<"U","R","L",":">> \o u : u \in (Urls \ {Undefined}) }
    \cup { <<"U","R","L",":">> \o <<"h","t","t","p","s",":","/","/","c","o","m","m","u","n","i","t","y",".","d","y","n","a","m","o","u","s",".","a","i","/","c","/","l","i","v","e","-","e","v","e","n","t","s","/","w","e","e","k","l","y","-","c","o","m","m","u","n","i","t","y","-","h","a","n","g","o","u","t","-","a","n","d","-","o","f","f","i","c","e","-","h","o","u","r","s","-","4","2">>,
           <<"U","R","L",":">> \o <<"h","t","t","p","s",":","/","/","c","o","m","m","u","n","i","t","y",".","d","y","n","a","m","o","u","s",".","a","i","/","c","/","l","i","v","e","-","e","v","e","n","t","s","/","w","e","e","k","l","y","-","c","o","m","m","u","n","i","t","y","-","h","a","n","g","o","u","t","-","a","n","d","-","o","f","f","i","c","e","-","h","o","u","r","s","-","4","2">> \o <<CR, LF, " ">> \o <<"x">> }

\* the texts escaped: of the tests (lines 76-102), a backslash before an n, a
\* newline, CR LF, and texts whose escaped forms are close to each other
EscapeTexts ==
    { << >>,
      <<"a">>,
      <<";">>,
      <<",">>,
      <<LF>>,
      <<Backslash>>,
      <<Backslash, "n">>,
      <<Backslash, ";">>,
      <<Backslash, Backslash>>,
      <<Backslash, Backslash, "n">>,
      <<Backslash, LF>>,
      <<"n">>,
      <<"a", CR, LF, "b">>,
      <<"a",Backslash,"n",";","b",LF,"c">>,
      <<"T","e","s","t",","," ","E","v","e","n","t",";"," ","M","o","r","e">>,
      <<"T","o","p","i","c","s",":"," ","A","I",","," ","M","L",";"," ","M","o","r","e"," ","i","n","f","o">> \o <<LF>> \o <<"N","e","w"," ","l","i","n","e"," ","h","e","r","e">> }

\* one call of one function: foldLine with a line, escapeICSText with each of
\* two texts, isValidLiveEventsPage with a URL or another value,
\* generateGoogleCalendarLink with an event
UtilInit ==
    /\ pc = "call"
    /\ ParserAtRest /\ FormatAtRest /\ IcsAtRest /\ PopupAtRest /\ ScanAtRest
    /\ \/ op = "foldLine" /\ args \in FoldLines
       \/ op = "escapeICSText" /\ args \in EscapeTexts \X EscapeTexts
       \/ op = "isValidLiveEventsPage" /\ args \in PageArguments
       \/ op = "generateGoogleCalendarLink" /\ args \in LinkEvents
    /\ returned = Null

CallFoldLine ==
    /\ pc = "call" /\ op = "foldLine"
    /\ returned' = foldLine(args)
    /\ pc' = "done"
    /\ UNCHANGED <<op, args, parserVars, formatVars, icsVars, popupVars, scanVars>>

CallEscapeICSText ==
    /\ pc = "call" /\ op = "escapeICSText"
    /\ returned' = <<escapeICSText(args[1]), escapeICSText(args[2])>>
    /\ pc' = "done"
    /\ UNCHANGED <<op, args, parserVars, formatVars, icsVars, popupVars, scanVars>>

CallIsValidLiveEventsPage ==
    /\ pc = "call" /\ op = "isValidLiveEventsPage"
    /\ returned' = isValidLiveEventsPage(args.url)
    /\ pc' = "done"
    /\ UNCHANGED <<op, args, parserVars, formatVars, icsVars, popupVars, scanVars>>

CallGenerateGoogleCalendarLink ==
    /\ pc = "call" /\ op = "generateGoogleCalendarLink"
    /\ returned' = generateGoogleCalendarLink(args)
    /\ pc' = "done"
    /\ UNCHANGED <<op, args, parserVars, formatVars, icsVars, popupVars, scanVars>>

UtilNext ==
    \/ CallFoldLine
    \/ CallEscapeICSText
    \/ CallIsValidLiveEventsPage
    \/ CallGenerateGoogleCalendarLink

UtilSpec == UtilInit /\ [][UtilNext]_vars

--------------------------------------------------------------------------
(* The vocabulary of the properties, stated on the fields the text was      *)
(* written from (ev, tm) and independent of the parser's own tables         *)

EventDone == pc = "done" /\ op = "parseEventDateTime"

TimeDone == pc = "done" /\ op = "parseTime"

AmMarkers == { <<"A","M">>, <<"a","M">>, <<"a","m">>, <<"A","m">> }

PmMarkers == { <<"P","M">>, <<"p","m">>, <<"p","M">>, <<"P","m">> }

\* the text has the shape of the grammar:
\* <Weekday>, <Month> <Day>, <H>:<MM> [en-dash or hyphen] <H>:<MM> <AM|PM> <Timezone>
FitsGrammar(e) ==
    /\ e.wd # << >>
    /\ e.mon # << >>
    /\ e.day < 100 /\ e.sh < 100 /\ e.eh < 100 /\ e.sm < 100 /\ e.em < 100
    /\ e.sep \in {EnDash, "-"}
    /\ e.per \in AmMarkers \cup PmMarkers
    /\ e.tz # << >>

\* some numeric field is out of range
OutOfRange(e) ==
    \/ e.day \notin 1..31
    \/ e.sh \notin 1..12 \/ e.eh \notin 1..12
    \/ e.sm \notin 0..59 \/ e.em \notin 0..59

\* the English month names, January first
FullMonthNames ==
    << <<"j","a","n","u","a","r","y">>, <<"f","e","b","r","u","a","r","y">>,
       <<"m","a","r","c","h">>, <<"a","p","r","i","l">>,
       <<"m","a","y">>, <<"j","u","n","e">>,
       <<"j","u","l","y">>, <<"a","u","g","u","s","t">>,
       <<"s","e","p","t","e","m","b","e","r">>, <<"o","c","t","o","b","e","r">>,
       <<"n","o","v","e","m","b","e","r">>, <<"d","e","c","e","m","b","e","r">> >>

\* token t, in any letter case, is month i (1..12) written with its first
\* three letters or more of its name
NamesMonth(t, i) ==
    /\ Len(t) >= 3
    /\ Len(t) <= Len(FullMonthNames[i])
    /\ toLowerCase(t) = SubSeq(FullMonthNames[i], 1, Len(t))

IsMonthName(t) == \E i \in 1..12 : NamesMonth(t, i)

\* token t, in any letter case, is the three-letter abbreviation of month i
IsAbbreviation(t, i) == Len(t) = 3 /\ NamesMonth(t, i)

IsLeapYear(y) == (y % 4 = 0 /\ y % 100 # 0) \/ y % 400 = 0

\* the number of days of month i (1..12) of year y
DaysInMonth(i, y) ==
    IF i = 2 THEN (IF IsLeapYear(y) THEN 29 ELSE 28)
    ELSE IF i \in {4, 6, 9, 11} THEN 30
    ELSE 31

\* the year the spec resolves for month i (1..12) under reference year y
SpecYear(i, y) == IF i = 12 THEN y ELSE y + 1

\* an hour 1..12 under a marker, in 24-hour form (spec section 4.1)
Hour24(h, pm) ==
    IF pm THEN (IF h = 12 THEN 12 ELSE h + 12)
    ELSE (IF h = 12 THEN 0 ELSE h)

--------------------------------------------------------------------------
(* Properties *)

\* C1: parseEventDateTime returns null for every text that fits the grammar
\* but carries an out-of-range numeric field (day outside 1..31, start or end
\* hour outside 1..12, start or end minute outside 0..59).
C1_OutOfRangeIsNoMatch ==
    (EventDone /\ FitsGrammar(ev) /\ OutOfRange(ev)) => eventResult = Null

\* C2: every non-null result of parseTime has hours in 0..23 and minutes in
\* 0..59, and every token that is malformed or whose hour is outside 1..12 or
\* whose minute is outside 0..59 yields null.
C2_ParseTimeValidated ==
    TimeDone =>
        /\ timeResult # Null =>
               (timeResult.hours \in 0..23 /\ timeResult.minutes \in 0..59)
        /\ (\/ tm.shape # "H:MM"
            \/ tm.per \notin AmMarkers \cup PmMarkers
            \/ tm.h \notin 1..12
            \/ tm.m \notin 0..59) => timeResult = Null

\* C3: parseEventDateTime returns null for every text whose month token is
\* not one of the twelve English month names (abbreviation or longer name, in
\* any letter case), whatever its first three letters are.
C3_UnknownMonthIsNoMatch ==
    (EventDone /\ ~IsMonthName(ev.mon)) => eventResult = Null

\* C4: for each of the twelve month abbreviations in any letter case and any
\* day that exists in that month, a well-formed text parses, and startDate and
\* endDate both have that month (0-indexed) and that day.
C4_MonthAndDayResolved ==
    \A i \in 1..12 :
        (/\ EventDone
         /\ FitsGrammar(ev) /\ IsAbbreviation(ev.mon, i)
         /\ ev.day \in 1..DaysInMonth(i, SpecYear(i, referenceYear))
         /\ ev.sh \in 1..12 /\ ev.eh \in 1..12
         /\ ev.sm \in 0..59 /\ ev.em \in 0..59)
        => /\ eventResult # Null
           /\ eventResult.startDate.month = i - 1
           /\ eventResult.startDate.date = ev.day
           /\ eventResult.endDate.month = i - 1
           /\ eventResult.endDate.date = ev.day

\* a leap day written in upper case is parsed to February 29
C4_Witness ==
    /\ EventDone
    /\ ev.mon = <<"F","E","B">> /\ ev.day = 29
    /\ eventResult # Null
    /\ eventResult.startDate.month = 1 /\ eventResult.startDate.date = 29

C6_EndHourConversion ==
    (EventDone /\ eventResult # Null /\ ev.eh \in 1..12)
    => LET pm == ev.per \in PmMarkers
           h  == IF pm /\ ev.eh # 12 THEN ev.eh + 12
                 ELSE IF ~pm /\ ev.eh = 12 THEN 0
                 ELSE ev.eh
       IN  /\ locals.endHour = h
           /\ locals.endMin = ev.em
           /\ ev.em \in 0..59 =>
                  /\ eventResult.endDate.hours = h
                  /\ eventResult.endDate.minutes = ev.em

\* an end at 12:30 AM is half past midnight
C6_Witness ==
    /\ EventDone /\ eventResult # Null
    /\ ev.eh = 12 /\ ev.em = 30 /\ ev.per \in AmMarkers
    /\ eventResult.endDate.hours = 0 /\ eventResult.endDate.minutes = 30

\* C7: for every successful parse with reference year Y, the start and end
\* instants have year Y when the month is December and Y + 1 otherwise.
C7_YearResolved ==
    (EventDone /\ eventResult # Null)
    => LET y == IF locals.month = 11 THEN referenceYear ELSE referenceYear + 1
       IN  /\ eventResult.startDate.fullYear = y
           /\ eventResult.endDate.fullYear = y

\* the other of the two separators
OtherSeparator(c) == IF c = EnDash THEN "-" ELSE EnDash

\* C8: two texts that differ only in the separator between the clock times
\* (en-dash or hyphen) both fail, or give the same startDate, endDate and
\* timezone, under the same reference year.
C8_SeparatorTolerance ==
    (EventDone /\ ev.sep \in {EnDash, "-"})
    => parseEventDateTime(Render([ev EXCEPT !.sep = OtherSeparator(ev.sep)]),
                          referenceYear) = eventResult

\* a text written with the ASCII hyphen has been parsed
C8_Witness ==
    /\ EventDone /\ ev.sep = "-" /\ eventResult # Null
    /\ eventResult.startDate.hours = 12 /\ eventResult.endDate.hours = 13

\* C9 as stated: the returned timezone label is the timezone token of the
\* text, letter for letter.
C9_TimezoneVerbatim ==
    (EventDone /\ eventResult # Null) => eventResult.timezone = ev.tz

\* C9 as amended: the returned timezone label is the timezone token of the
\* text converted to upper case, otherwise unvalidated and unconverted.
C9_TimezoneUpperCased ==
    (EventDone /\ eventResult # Null)
    => /\ Len(eventResult.timezone) = Len(ev.tz)
       /\ \A k \in 1..Len(ev.tz) :
              eventResult.timezone[k] =
                  (IF \E j \in 1..26 : LowerLetters[j] = ev.tz[k]
                   THEN UpperLetters[CHOOSE j \in 1..26 : LowerLetters[j] = ev.tz[k]]
                   ELSE ev.tz[k])

\* the token "est" is returned as "EST"
C9_Witness ==
    /\ EventDone /\ eventResult # Null
    /\ ev.tz = <<"e","s","t">>
    /\ eventResult.timezone = <<"E","S","T">>

\* C10 as stated: endDate is strictly later than startDate in every result.
C10_EndAfterStart ==
    (EventDone /\ eventResult # Null)
    => eventResult.endDate.time > eventResult.startDate.time

\* the hour conversion both clock times undergo (spec section 4.1)
Converted(h, pm) ==
    IF pm /\ h # 12 THEN h + 12 ELSE IF ~pm /\ h = 12 THEN 0 ELSE h

\* C10 as amended: in every result, endDate is strictly later than startDate
\* exactly when the converted end clock time is later than the converted start
\* clock time; a text whose end is not later (11:00 - 12:00 AM) is returned
\* as it is, with endDate not later than startDate.
C10_EndAfterStartIffClockLater ==
    (EventDone /\ eventResult # Null)
    => ((eventResult.endDate.time > eventResult.startDate.time)
        <=> (60 * Converted(ev.eh, ev.per \in PmMarkers) + ev.em
               > 60 * Converted(ev.sh, ev.per \in PmMarkers) + ev.sm))

\* "11:00 - 12:00 AM" parses to an end at midnight, before its start
C10_Witness ==
    /\ EventDone /\ eventResult # Null
    /\ ev.sh = 11 /\ ev.eh = 12 /\ ev.per \in AmMarkers
    /\ eventResult.endDate.time < eventResult.startDate.time

\* C13: parseTime accepts a token H:MM followed by optional white space and
\* an AM/PM marker in any letter case; for an hour h in 1..12 it returns
\* hours = h + 12 under PM with h not 12, hours = 0 under AM with h = 12 and
\* hours = h otherwise, with minutes equal to MM.
C13_ParseTimeConversion ==
    (/\ TimeDone /\ tm.shape = "H:MM"
     /\ tm.h \in 1..12 /\ tm.per \in AmMarkers \cup PmMarkers)
    => /\ timeResult # Null
       /\ timeResult.hours = (IF tm.per \in PmMarkers /\ tm.h # 12 THEN tm.h + 12
                              ELSE IF tm.per \in AmMarkers /\ tm.h = 12 THEN 0
                              ELSE tm.h)
       /\ timeResult.minutes = tm.m

\* "12:30 pm", with white space and a lower-case marker, is 12:30
C13_Witness ==
    /\ TimeDone /\ tm.shape = "H:MM" /\ tm.h = 12 /\ tm.m = 30
    /\ tm.gap = <<" ">> /\ tm.per = <<"p","m">>
    /\ timeResult = [hours |-> 12, minutes |-> 30]

FormatDone == pc = "done" /\ op = "formatISODate"

\* n in decimal, zero-padded to w digits
FixedWidth(n, w) == [i \in 1..w |-> DigitChars[((n \div (10 ^ (w - i))) % 10) + 1]]

\* C11: for every instant with a year in 0..9999, formatISODate returns a
\* string of exactly 15 characters: the 4-digit zero-padded year, the 2-digit
\* month (1-indexed), the 2-digit day, the letter T, the 2-digit hour, minute
\* and second, all taken from the instant's local wall-clock fields.
C11_FixedWidthTimestamp ==
    \A k \in 1..Len(isos) :
        dates[k].fullYear \in 0..9999
        => /\ Len(isos[k]) = 15
           /\ isos[k] = FixedWidth(dates[k].fullYear, 4)
                          \o FixedWidth(dates[k].month + 1, 2)
                          \o FixedWidth(dates[k].date, 2)
                          \o <<"T">>
                          \o FixedWidth(dates[k].hours, 2)
                          \o FixedWidth(dates[k].minutes, 2)
                          \o FixedWidth(dates[k].seconds, 2)

\* the local wall-clock fields of a Date, most significant first
WallClock(date) ==
    <<date.fullYear, date.month, date.date, date.hours, date.minutes, date.seconds>>

\* a is before b, field by field
EarlierFields(a, b) ==
    \E i \in 1..Len(a) : a[i] < b[i] /\ \A j \in 1..(i - 1) : a[j] = b[j]

\* the < of two strings: by code unit at the first difference, a proper prefix first
LexLess(a, b) ==
    \E i \in 1..Len(b) :
        /\ i <= Len(a) + 1
        /\ \A j \in 1..(i - 1) : a[j] = b[j]
        /\ (i = Len(a) + 1 \/ charCodeAt(a[i]) < charCodeAt(b[i]))

\* C12: the output of formatISODate is sortable: for any two instants a and
\* b, a is earlier than b in local wall-clock fields (to the second) exactly
\* when formatISODate(a) is lexicographically smaller than formatISODate(b).
C12_Sortable ==
    FormatDone =>
        (EarlierFields(WallClock(dates[1]), WallClock(dates[2]))
            <=> LexLess(isos[1], isos[2]))

--------------------------------------------------------------------------
(* Properties of the calendar file, read from the text generateICS returned *)

IcsDone == pc = "done" /\ op = "generateICS"

\* text.split('\r\n'): the physical lines of a calendar file
PhysicalLines(text) ==
    Bind({ i \in 1..(Len(text) - 1) : text[i] = CR /\ text[i + 1] = LF }, LAMBDA breaks :
    Bind([k \in 1..Cardinality(breaks) |->
             CHOOSE p \in breaks : Cardinality({ q \in breaks : q < p }) = k - 1], LAMBDA at :
         [k \in 1..(Cardinality(breaks) + 1) |->
             SubSeq(text, IF k = 1 THEN 1 ELSE at[k - 1] + 2,
                          IF k = Cardinality(breaks) + 1 THEN Len(text) ELSE at[k] - 1)]))

\* the logical (content) lines: a physical line that starts with a space
\* continues the line before it (RFC 5545, section 3.1)
LogicalLines(text) ==
    Bind(PhysicalLines(text), LAMBDA phys :
         LET out[k \in 0..Len(phys)] ==
                 IF k = 0 THEN << >>
                 ELSE Bind(out[k - 1], LAMBDA before :
                           IF k > 1 /\ phys[k] # << >> /\ phys[k][1] = " "
                           THEN [before EXCEPT ![Len(before)] = @ \o Tail(phys[k])]
                           ELSE Append(before, phys[k]))
         IN  out[Len(phys)])

StartsWith(line, prefix) ==
    Len(line) >= Len(prefix) /\ SubSeq(line, 1, Len(prefix)) = prefix

\* what one character of a text value becomes (RFC 5545, section 3.3.11)
EscapedChar(c) ==
    IF c = Backslash THEN <<Backslash, Backslash>>
    ELSE IF c = ";" THEN <<Backslash, ";">>
    ELSE IF c = "," THEN <<Backslash, ",">>
    ELSE IF c = LF THEN <<Backslash, "n">>
    ELSE <<c>>

\* the substitution applied once to every character of a text
EscapedOnce(text) ==
    LET out[lo \in 1..(Len(text) + 1), hi \in 0..Len(text)] ==
            IF lo > hi THEN << >>
            ELSE IF lo = hi THEN EscapedChar(text[lo])
            ELSE out[lo, (lo + hi) \div 2] \o out[((lo + hi) \div 2) + 1, hi]
    IN  out[1, Len(text)]

C15_PhysicalLinesBounded ==
    \A k \in 1..Len(calls) :
        Bind(PhysicalLines(calls[k].ics), LAMBDA phys :
             \A i \in 1..Len(phys) :
                /\ Len(phys[i]) <= 75
                /\ \A j \in 1..Len(phys[i]) : phys[i][j] # LF)

\* how many logical lines of a calendar file start with a field name
FieldCount(text, name) ==
    Bind(LogicalLines(text), LAMBDA lines :
         Cardinality({ i \in 1..Len(lines) : StartsWith(lines[i], name) }))

\* C16: generateICS emits a LOCATION, URL or DESCRIPTION field exactly when
\* the corresponding input is present and non-empty; when the input is absent
\* or empty the output has no occurrence of that field (it is omitted, not
\* emitted empty).
C16_OptionalFieldsIffPresent ==
    \A k \in 1..Len(calls) :
        /\ FieldCount(calls[k].ics, <<"L","O","C","A","T","I","O","N",":">>)
             = (IF calls[k].event.location \in {Undefined, << >>} THEN 0 ELSE 1)
        /\ FieldCount(calls[k].ics, <<"U","R","L",":">>)
             = (IF calls[k].event.url \in {Undefined, << >>} THEN 0 ELSE 1)
        /\ FieldCount(calls[k].ics, <<"D","E","S","C","R","I","P","T","I","O","N",":">>)
             = (IF calls[k].event.description \in {Undefined, << >>} THEN 0 ELSE 1)

\* the UID of a calendar file: ics.match(/UID:(.+)/)[1], the UID line being
\* the seventh line and never folded
UidOf(text) == Bind(PhysicalLines(text)[7], LAMBDA line : SubSeq(line, 5, Len(line)))

\* C17: any two generateICS calls in the same process, including calls for
\* events with identical titles made in immediate succession (in the same
\* clock millisecond), produce different UID values.
C17_UidsDiffer ==
    \A i, j \in 1..Len(calls) :
        i < j => UidOf(calls[i].ics) # UidOf(calls[j].ics)

\* the lines every calendar file starts and ends with
HeaderLines ==
    << <<"B","E","G","I","N",":","V","C","A","L","E","N","D","A","R">>,
       <<"V","E","R","S","I","O","N",":","2",".","0">>,
       <<"P","R","O","D","I","D",":","-","/","/","C","i","r","c","l","e"," ","C","a","l","e","n","d","a","r"," ","E","x","p","o","r","t","e","r","/","/","D","y","n","a","m","o","u","s"," ","A","I","/","/","E","N">>,
       <<"C","A","L","S","C","A","L","E",":","G","R","E","G","O","R","I","A","N">>,
       <<"M","E","T","H","O","D",":","P","U","B","L","I","S","H">>,
       <<"B","E","G","I","N",":","V","E","V","E","N","T">> >>

FooterLines ==
    << <<"E","N","D",":","V","E","V","E","N","T">>,
       <<"E","N","D",":","V","C","A","L","E","N","D","A","R">> >>

\* the names of an event's fields, in the order of the claim
FieldNames(event) ==
    << <<"U","I","D",":">>, <<"D","T","S","T","A","M","P",":">>, <<"D","T","S","T","A","R","T",":">>, <<"D","T","E","N","D",":">>, <<"S","U","M","M","A","R","Y",":">> >>
    \o (IF event.location \in {Undefined, << >>} THEN << >> ELSE << <<"L","O","C","A","T","I","O","N",":">> >>)
    \o (IF event.url \in {Undefined, << >>} THEN << >> ELSE << <<"U","R","L",":">> >>)
    \o (IF event.description \in {Undefined, << >>} THEN << >> ELSE << <<"D","E","S","C","R","I","P","T","I","O","N",":">> >>)

\* C18: for every input event, the logical lines of the output are, in this
\* order: BEGIN:VCALENDAR, VERSION:2.0, PRODID, CALSCALE, METHOD, BEGIN:VEVENT,
\* UID, DTSTAMP, DTSTART, DTEND, SUMMARY, then LOCATION, URL and DESCRIPTION
\* when present, END:VEVENT, END:VCALENDAR; there is exactly one BEGIN:VEVENT
\* line and one END:VEVENT line, and END:VCALENDAR is the last line.
C18_LineOrder ==
    \A k \in 1..Len(calls) :
        Bind(LogicalLines(calls[k].ics), LAMBDA lines :
        Bind(FieldNames(calls[k].event), LAMBDA names :
            /\ Len(lines) = 6 + Len(names) + 2
            /\ SubSeq(lines, 1, 6) = HeaderLines
            /\ \A i \in 1..Len(names) : StartsWith(lines[6 + i], names[i])
            /\ SubSeq(lines, Len(lines) - 1, Len(lines)) = FooterLines
            /\ Cardinality({ i \in 1..Len(lines) : lines[i] = HeaderLines[6] }) = 1
            /\ Cardinality({ i \in 1..Len(lines) : lines[i] = FooterLines[1] }) = 1
            /\ lines[Len(lines)] = FooterLines[2]))

\* the two calls were made on one and the same event
SameEventTwice == IcsDone /\ events[1] = events[2]

\* C19 as stated: two generateICS calls on the same event produce outputs
\* that differ at most in the UID line.
C19_OnlyUidDiffers ==
    SameEventTwice =>
        Bind(LogicalLines(calls[1].ics), LAMBDA first :
        Bind(LogicalLines(calls[2].ics), LAMBDA second :
            /\ Len(first) = Len(second)
            /\ \A i \in 1..Len(first) :
                   first[i] # second[i] => StartsWith(first[i], <<"U","I","D",":">>)))

\* C19 as amended: two generateICS calls on the same event produce outputs
\* that differ at most in the UID line and in the DTSTAMP line, which is
\* written from the clock; every other line is a function of the event alone.
C19_OnlyUidAndDtstampDiffer ==
    SameEventTwice =>
        Bind(LogicalLines(calls[1].ics), LAMBDA first :
        Bind(LogicalLines(calls[2].ics), LAMBDA second :
            /\ Len(first) = Len(second)
            /\ \A i \in 1..Len(first) :
                   first[i] # second[i]
                   => (StartsWith(first[i], <<"U","I","D",":">>) \/ StartsWith(first[i], <<"D","T","S","T","A","M","P",":">>))))

\* one event, exported at 12:59:59 and again at 13:00:00: the DTSTAMP lines
\* differ
C19_Witness ==
    /\ SameEventTwice
    /\ LogicalLines(calls[1].ics)[8] = <<"D","T","S","T","A","M","P",":","2","0","2","5","1","2","1","5","T","1","2","5","9","5","9","Z">>
    /\ LogicalLines(calls[2].ics)[8] = <<"D","T","S","T","A","M","P",":","2","0","2","5","1","2","1","5","T","1","3","0","0","0","0","Z">>

--------------------------------------------------------------------------
(* Properties of the popup *)

\* the scraped event a handleExport invocation was called with
TaskEvent(i) == view.cards[tasks[i].card]

\* parseEventDateTime returns no match for the event's dateTimeStr
NoMatch(event) ==
    parseEventDateTime(event.dateTimeStr, DateOfClock(now).fullYear) = Null

\* C20: when parseEventDateTime returns no match for a scraped event's
\* dateTimeStr, handleExport (through prepareEventForExport) skips the record:
\* it raises no fault and rejects no promise, performs no export action and
\* writes no export record.
C20_NoMatchIsSkipped ==
    \A i \in 1..Len(tasks) :
        NoMatch(TaskEvent(i))
        => /\ tasks[i].pc # "rejected"
           /\ \A k \in 1..Len(effects) : effects[k].event.title # TaskEvent(i).title
           /\ \A k \in 1..Len(storage.exportedEvents) :
                  ~ /\ storage.exportedEvents[k].slug = SlugOf(TaskEvent(i))
                    /\ storage.exportedEvents[k].exportType \in ExportTypes

\* C21: duplicate exports are prevented: for a fixed event slug and export
\* channel at most one export action is ever performed, under any sequence and
\* any interleaving of handleExport invocations, including a second invocation
\* that starts before the first one has recorded its export.
C21_AtMostOneExportAction ==
    \A k, l \in 1..Len(effects) :
        effects[k].slug = effects[l].slug /\ effects[k].type = effects[l].type
        => k = l

\* handleExport invocation i ends after its export in this step (line 199)
ExportCompletes(i) ==
    tasks[i].pc = "trackExport.set" /\ tasks'[i].pc = "fulfilled"

\* C22: after handleExport(type, event) has performed an export, the export
\* button of that type on that event's own card is disabled, and the buttons
\* on every other event's card are left unchanged.
C22_OwnButtonDisabledOthersUnchanged ==
    [][ \A i \in 1..Len(tasks) :
            ExportCompletes(i)
            => /\ <<tasks[i].card, tasks[i].type>> \in view'.disabled
               /\ \A c \in 1..Len(view.cards), type \in ExportTypes :
                      view.cards[c] # view.cards[tasks[i].card]
                      => (<<c, type>> \in view'.disabled <=> <<c, type>> \in view.disabled)
      ]_vars

\* renderEvents has rendered the cards and no button has been clicked since
Rendered == pc = "open" /\ op = "popup" /\ tasks = << >>

\* the slug of the event of a card: its scraped slug, or the slug made of its
\* title when the scraped one is empty
CardSlug(c) ==
    IF view.cards[c].slug # << >> THEN view.cards[c].slug ELSE slugify(view.cards[c].title)

\* the cache holds a record of the slug with one of the export types
Cached(slug, types) ==
    \E k \in 1..Len(exportedEventsCache) :
        /\ exportedEventsCache[k].slug = slug
        /\ exportedEventsCache[k].exportType \in types

\* C23: in renderEvents, for every event and every channel c in {google,
\* outlook, ics}, the rendered export button for c is disabled exactly when
\* the exported-events cache holds a record for that event's slug with
\* exportType c or with exportType rsvp; an exported badge is rendered exactly
\* when the cache holds any record for the slug.
C23_RenderedFromCache ==
    Rendered =>
        \A c \in 1..Len(view.cards) :
            /\ \A channel \in {"google", "outlook", "ics"} :
                   <<c, channel>> \in view.disabled
                   <=> Cached(CardSlug(c), {channel, "rsvp"})
            /\ c \in view.badges
               <=> Cached(CardSlug(c), {"google", "outlook", "ics", "rsvp"})

\* rendered: a card all of whose buttons are disabled by an rsvp record, a card
\* with one button disabled by a record of its channel, found by the slug made
\* of the title, and with its other buttons enabled
C23_Witness ==
    /\ Rendered
    /\ \E c, d \in 1..Len(view.cards) :
          /\ Cached(CardSlug(c), {"rsvp"})
          /\ \A channel \in ExportTypes : <<c, channel>> \in view.disabled
          /\ view.cards[d].slug = << >>
          /\ <<d, "ics">> \in view.disabled
          /\ <<d, "google">> \notin view.disabled
          /\ d \in view.badges

--------------------------------------------------------------------------
(* Properties of the scan of the page *)

\* C24: the content-script message handler calls sendResponse exactly once for
\* every message and returns true: for action scanEvents it answers
\* {success: true, events} with the scraped events, or {success: false,
\* error: <message>} when scraping throws; for any other action it answers
\* {success: false, error: 'Unknown action: <action>'}.
C24_HandleMessageAnswersOnce ==
    \A i \in 1..Len(handled) :
        /\ Len(handled[i].responses) = 1
        /\ handled[i].returned = TRUE
        /\ IF handled[i].message.action = <<"s","c","a","n","E","v","e","n","t","s">>
           THEN IF browser.scrape.thrown
                THEN /\ ~handled[i].responses[1].success
                     /\ handled[i].responses[1].error = browser.scrape.error.message
                     /\ DOMAIN handled[i].responses[1] = {"success", "error"}
                ELSE /\ handled[i].responses[1].success
                     /\ handled[i].responses[1].events = browser.scrape.events
                     /\ DOMAIN handled[i].responses[1] = {"success", "events"}
           ELSE /\ ~handled[i].responses[1].success
                /\ handled[i].responses[1].error
                   = <<"U","n","k","n","o","w","n"," ","a","c","t","i","o","n",":"," ">> \o (IF handled[i].message.action = Undefined
                                   THEN <<"u","n","d","e","f","i","n","e","d">> ELSE handled[i].message.action)
                /\ DOMAIN handled[i].responses[1] = {"success", "error"}

\* the handler has answered a scanEvents message on a page where scraping
\* throws, and a message with another action
C24_Witness ==
    \E i, j \in 1..Len(handled) :
        /\ handled[i].message.action = <<"s","c","a","n","E","v","e","n","t","s">>
        /\ browser.scrape.thrown
        /\ handled[j].message.action = <<"u","n","k","n","o","w","n","A","c","t","i","o","n">>
        /\ Len(handled[i].responses) = 1 /\ Len(handled[j].responses) = 1

\* the callback of chrome.tabs.query got no tab
NoActiveTab == ~browser.tabs.defined \/ browser.tabs.list = << >>

\* C25: the promise returned by scanPageForEvents settles exactly once: it
\* rejects with 'No active tab found' when the tab query returns no tab,
\* rejects with the runtime error message when chrome.runtime.lastError is set,
\* resolves with response.events when the response has success true, and
\* otherwise rejects with response.error or the default 'Failed to scan
\* events'; no message is sent to a tab when no active tab exists.
C25_ScanSettlesOnce ==
    /\ Len(scanPage.settled) <= 1
    /\ NoActiveTab => scanPage.sent = << >>
    /\ scanPage.pc = "returned" =>
         /\ Len(scanPage.settled) = 1
         /\ IF NoActiveTab
            THEN /\ scanPage.settled[1].how = "reject"
                 /\ scanPage.settled[1].value.message = <<"N","o"," ","a","c","t","i","v","e"," ","t","a","b"," ","f","o","u","n","d">>
            ELSE IF scanPage.delivered.lastError # Null
            THEN /\ scanPage.settled[1].how = "reject"
                 /\ scanPage.settled[1].value.message = scanPage.delivered.lastError.message
            ELSE IF /\ scanPage.delivered.response.defined
                    /\ scanPage.delivered.response.success
            THEN /\ scanPage.settled[1].how = "resolve"
                 /\ IF "events" \in DOMAIN scanPage.delivered.response
                    THEN scanPage.settled[1].value = scanPage.delivered.response.events
                    ELSE scanPage.settled[1].value = Undefined
            ELSE /\ scanPage.settled[1].how = "reject"
                 /\ scanPage.settled[1].value.message
                    = IF /\ scanPage.delivered.response.defined
                         /\ "error" \in DOMAIN scanPage.delivered.response
                         /\ scanPage.delivered.response.error # << >>
                      THEN scanPage.delivered.response.error
                      ELSE <<"F","a","i","l","e","d"," ","t","o"," ","s","c","a","n"," ","e","v","e","n","t","s">>

\* the promise was rejected with the default message: the response of the
\* content script held an empty error message
C25_Witness ==
    /\ scanPage.pc = "returned"
    /\ ~NoActiveTab
    /\ browser.receiver = "content"
    /\ scanPage.delivered.lastError = Null
    /\ ~scanPage.delivered.response.success
    /\ scanPage.settled[1].how = "reject"
    /\ scanPage.settled[1].value.message = <<"F","a","i","l","e","d"," ","t","o"," ","s","c","a","n"," ","e","v","e","n","t","s">>

--------------------------------------------------------------------------
(* Properties of the text functions *)

FoldDone == pc = "done" /\ op = "foldLine"

\* a text with every CR LF followed by a space removed
Unfolded(text) ==
    LET starts(i) == i + 2 <= Len(text)
                     /\ text[i] = CR /\ text[i + 1] = LF /\ text[i + 2] = " "
        removed(i) == \E s \in {i - 2, i - 1, i} : s >= 1 /\ starts(s)
        out[lo \in 1..(Len(text) + 1), hi \in 0..Len(text)] ==
            IF lo > hi THEN << >>
            ELSE IF lo = hi THEN (IF removed(lo) THEN << >> ELSE <<text[lo]>>)
            ELSE out[lo, (lo + hi) \div 2] \o out[((lo + hi) \div 2) + 1, hi]
    IN  out[1, Len(text)]

\* the number of continuation lines a line of length L > 75 needs:
\* ceil((L - 75) / 74)
Continuations(L) == (L - 75 + 73) \div 74

\* C28: foldLine returns a line of at most 75 characters unchanged; for a line
\* of length L > 75 it produces exactly 1 + ceil((L - 75) / 74) physical lines
\* joined by CRLF, the first holding the first 75 characters and each later
\* one a single space followed by the next up to 74 characters, no
\* continuation line being empty; removing every CRLF-plus-space from the
\* result gives back the original line.
C28_FoldLineShape ==
    FoldDone =>
        IF Len(args) <= 75
        THEN returned = args
        ELSE Bind(PhysicalLines(returned), LAMBDA phys :
                 /\ Len(phys) = 1 + Continuations(Len(args))
                 /\ phys[1] = SubSeq(args, 1, 75)
                 /\ \A k \in 2..Len(phys) :
                        /\ Len(phys[k]) > 1
                        /\ phys[k] = <<" ">> \o substring(args, 75 + 74 * (k - 2),
                                                          75 + 74 * (k - 1))
                 /\ Unfolded(returned) = args)

EscapeDone == pc = "done" /\ op = "escapeICSText"

\* the character an escape pair stands for
PairOriginal(c) == IF c = "n" THEN LF ELSE c

\* the positions of a text at which a token starts when it is read from left
\* to right: a backslash takes the character after it into its token
TokenStarts(text) ==
    LET starts[i \in 0..Len(text)] ==
            IF i = 0 THEN {}
            ELSE IF i = 1 THEN {1}
            ELSE Bind(starts[i - 1], LAMBDA before :
                      IF (i - 1) \in before /\ text[i - 1] = Backslash
                      THEN before
                      ELSE before \cup {i})
    IN  starts[Len(text)]

\* the text read from left to right with each pair of a backslash and a
\* character replaced by the character the pair stands for
Unescaped(text) ==
    Bind(TokenStarts(text), LAMBDA starts :
         LET out[i \in 0..Len(text)] ==
                 IF i = 0 THEN << >>
                 ELSE IF i \notin starts THEN out[i - 1] \o <<PairOriginal(text[i])>>
                 ELSE IF text[i] = Backslash THEN out[i - 1]
                 ELSE out[i - 1] \o <<text[i]>>
         IN  out[Len(text)])

\* every token of the escaped text is a plain character other than a newline,
\* a semicolon and a comma, or one of the four pairs
WellEscaped(text) ==
    Bind(TokenStarts(text), LAMBDA starts :
         \A i \in 1..Len(text) :
             IF i \in starts
             THEN /\ text[i] \notin {LF, ";", ","}
                  /\ text[i] = Backslash => i < Len(text)
             ELSE text[i] \in {Backslash, ";", ",", "n"})

\* C29: escapeICSText is injective and reversible: reading its output left to
\* right and replacing each backslash-backslash, backslash-semicolon,
\* backslash-comma and backslash-n pair by the original character recovers the
\* input exactly, and the output contains no raw newline and no semicolon or
\* comma that is not preceded by an escaping backslash.
C29_EscapeReversible ==
    EscapeDone =>
        /\ \A k \in 1..2 :
               /\ Unescaped(returned[k]) = args[k]
               /\ WellEscaped(returned[k])
        /\ returned[1] = returned[2] => args[1] = args[2]

\* a backslash before an n and a newline have been escaped to different texts,
\* and each is read back
C29_Witness ==
    /\ EscapeDone
    /\ args[1] = <<Backslash, "n">> /\ returned[1] = <<Backslash, Backslash, "n">>
    /\ args[2] = <<LF>> /\ returned[2] = <<Backslash, "n">>
    /\ Unescaped(returned[1]) = args[1] /\ Unescaped(returned[2]) = args[2]

PageDone == pc = "done" /\ op = "isValidLiveEventsPage"

\* the path of a URL written from parts: an empty path is the root
PathOf(parts) == IF parts.path = << >> THEN <<"/">> ELSE parts.path

\* C27: isValidLiveEventsPage returns true exactly when its argument parses as
\* a URL whose hostname is community.dynamous.ai and whose path, after
\* removing one trailing slash, is /c/live-events (query string ignored); it
\* returns false, without throwing, for every other input including null,
\* undefined, the empty string, unparsable text and paths of a specific event.
C27_ValidLiveEventsPage ==
    PageDone =>
        /\ returned \in BOOLEAN
        /\ returned
           <=> /\ args.isUrl
               /\ toLowerCase(args.parts.host) = <<"c","o","m","m","u","n","i","t","y",".","d","y","n","a","m","o","u","s",".","a","i">>
               /\ \/ PathOf(args.parts) = <<"/","c","/","l","i","v","e","-","e","v","e","n","t","s">>
                  \/ PathOf(args.parts) = <<"/","c","/","l","i","v","e","-","e","v","e","n","t","s">> \o <<"/">>

\* true for a URL with a trailing slash, a query and upper-case letters in
\* its host
C27_Witness ==
    /\ PageDone
    /\ returned = TRUE
    /\ args.parts.host = <<"C","o","m","m","u","n","i","t","y",".","D","y","n","a","m","o","u","s",".","A","I">>
    /\ args.parts.path = <<"/","c","/","l","i","v","e","-","e","v","e","n","t","s">> \o <<"/">>
    /\ args.parts.query = <<"t","a","b","=","u","p","c","o","m","i","n","g">>

LinkDone == pc = "done" /\ op = "generateGoogleCalendarLink"

\* the elements of a set of numbers in increasing order
Ordered(set) ==
    [k \in 1..Cardinality(set) |->
        CHOOSE p \in set : Cardinality({ q \in set : q < p }) = k - 1]

\* the value of a hexadecimal digit
HexValue(c) ==
    IF c \in Digit THEN (CHOOSE i \in 1..10 : DigitChars[i] = c) - 1
    ELSE 9 + (CHOOSE i \in 1..6 : UpperLetters[i] = c)

\* the bytes a form-encoded text stands for: a plus sign is a space, a percent
\* sign and two hexadecimal digits are one byte
FormBytes(text) ==
    Bind(Ordered({ i \in 1..Len(text) :
                     ~ \/ (i > 1 /\ text[i - 1] = "%")
                       \/ (i > 2 /\ text[i - 2] = "%") }), LAMBDA starts :
         [k \in 1..Len(starts) |->
             IF text[starts[k]] = "%"
             THEN 16 * HexValue(text[starts[k] + 1]) + HexValue(text[starts[k] + 2])
             ELSE IF text[starts[k]] = "+" THEN 32
             ELSE charCodeAt(text[starts[k]])])

\* the characters the texts of the events are written with
LinkAlphabet ==
    Word \cup { p[1] : p \in OtherCharCodes } \cup { p[1] : p \in WideCodePoints }

\* the characters a sequence of UTF-8 bytes stands for
Utf8Decoded(bytes) ==
    Bind(Ordered({ i \in 1..Len(bytes) : bytes[i] < 128 \/ bytes[i] >= 192 }), LAMBDA leads :
         [k \in 1..Len(leads) |->
             Bind(bytes[leads[k]], LAMBDA b :
             Bind(IF b < 128 THEN b
                  ELSE IF b < 224 THEN (b - 192) * 64 + (bytes[leads[k] + 1] - 128)
                  ELSE IF b < 240 THEN (b - 224) * 4096 + (bytes[leads[k] + 1] - 128) * 64
                                       + (bytes[leads[k] + 2] - 128)
                  ELSE (b - 240) * 262144 + (bytes[leads[k] + 1] - 128) * 4096
                       + (bytes[leads[k] + 2] - 128) * 64 + (bytes[leads[k] + 3] - 128),
                  LAMBDA cp : CHOOSE c \in LinkAlphabet : codePointAt(c) = cp))])

\* the pieces of a text between the occurrences of a character
SplitAt(text, c) ==
    Bind(Ordered({ i \in 1..Len(text) : text[i] = c }), LAMBDA at :
         [k \in 1..(Len(at) + 1) |->
             SubSeq(text, IF k = 1 THEN 1 ELSE at[k - 1] + 1,
                          IF k = Len(at) + 1 THEN Len(text) ELSE at[k] - 1)])

\* the query parameters of a link, decoded: new URL(link).searchParams
SearchParams(link) ==
    Bind(SplitAt(SubSeq(link, FirstIndex(link, {"?"}, 1) + 1, Len(link)), "&"), LAMBDA pairs :
         [k \in 1..Len(pairs) |->
             Bind(FirstIndex(pairs[k], {"="}, 1), LAMBDA eq :
                  [name  |-> Utf8Decoded(FormBytes(SubSeq(pairs[k], 1, eq - 1))),
                   value |-> Utf8Decoded(FormBytes(SubSeq(pairs[k], eq + 1, Len(pairs[k]))))])])

\* the values of the parameters of a name
ParamValues(params, name) ==
    { params[k].value : k \in { j \in 1..Len(params) : params[j].name = name } }

\* C26: generateGoogleCalendarLink sets the dates query parameter to
\* formatISODate(startDate), a single slash, then formatISODate(endDate), and
\* sets the location and details parameters exactly when the event's location
\* and description are present and non-empty.
C26_GoogleLinkParameters ==
    LinkDone =>
        Bind(SearchParams(returned), LAMBDA params :
            /\ ParamValues(params, <<"d","a","t","e","s">>)
               = { formatISODate(args.startDate) \o <<"/">> \o formatISODate(args.endDate) }
            /\ ParamValues(params, <<"l","o","c","a","t","i","o","n">>)
               = IF args.location # Undefined /\ args.location # << >>
                 THEN {args.location} ELSE {}
            /\ ParamValues(params, <<"d","e","t","a","i","l","s">>)
               = IF args.description # Undefined /\ args.description # << >>
                 THEN {args.description} ELSE {})

\* a link with the three parameters, for a location and a description that
\* hold the characters of a query string, and a link for an event with an
\* empty location
C26_Witness ==
    /\ LinkDone
    /\ args.location = <<"R","o","o","m"," ","1","+","2",","," ","5","0","%"," ","="," ","#","7","?">>
    /\ args.description = <<"a","&","l","o","c","a","t","i","o","n","=","b">>
    /\ Len(SearchParams(returned)) = 5
    /\ ParamValues(SearchParams(returned), <<"l","o","c","a","t","i","o","n">>) = {<<"R","o","o","m"," ","1","+","2",","," ","5","0","%"," ","="," ","#","7","?">>}

--------------------------------------------------------------------------
(* Properties of the export records *)

\* every handleExport invocation has ended, and with it every trackExport call
AllResolved ==
    /\ pc = "open" /\ op = "popup"
    /\ tasks # << >>
    /\ \A i \in 1..Len(tasks) : tasks[i].pc \in {"fulfilled", "rejected"}

\* the trackExport calls made: one after each export action (line 179), with
\* the slug and the type of that action
TrackExportCalls == [k \in 1..Len(effects) |-> [slug |-> effects[k].slug, type |-> effects[k].type]]

\* C30: after any set of trackExport calls, possibly overlapping in time, have
\* all resolved, the stored exportedEvents list contains one record (slug,
\* exportType) for every call and still contains every record that was stored
\* before; no record is lost to an interleaved read-modify-write, and the
\* in-memory cache equals the stored list.
C30_NoExportRecordLost ==
    AllResolved =>
        /\ \E stored \in StoredExports :
              /\ Len(storage.exportedEvents) = Len(stored) + Len(TrackExportCalls)
              /\ SubSeq(storage.exportedEvents, 1, Len(stored)) = stored
              /\ \E at \in [1..Len(TrackExportCalls) -> (Len(stored) + 1)..Len(storage.exportedEvents)] :
                    /\ \A k, l \in DOMAIN at : at[k] = at[l] => k = l
                    /\ \A k \in DOMAIN at :
                          /\ storage.exportedEvents[at[k]].slug = TrackExportCalls[k].slug
                          /\ storage.exportedEvents[at[k]].exportType = TrackExportCalls[k].type
        /\ exportedEventsCache = storage.exportedEvents

==========================================================================
